---- MODULE Spec2Model ----
(***************************************************************************)
(* Model of the wind-damage photo aggregator: the Deduplicator             *)
(* (src/src/models/dedup.py), the aggregation utilities                    *)
(* (src/src/utils/aggregation.py), the damage detector batch               *)
(* (src/src/models/damage_detector_gemini.py) and the handler              *)
(* (src/src/app.py).                                                       *)
(*                                                                         *)
(* Floats are modelled exactly as scaled integers / rationals:             *)
(*   - a dedup quality score q is the integer 2*1920*1080*q;               *)
(*   - a hash similarity is the pair (num, den) with value num/den.        *)
(* An image's bytes are abstracted to what the code reads from them:       *)
(* whether they decode, the decoded width and height, and the 8x8          *)
(* grayscale thumbnail (64 luminance values) PIL produces from them.       *)
(***************************************************************************)
EXTENDS Integers, Sequences, FiniteSets, TLC

\* ------------------------------------------------------------------ bounds
MaxImages == 3

\* The length of the batches that fill the semaphores of QualityAnalyzer (8
\* slots) and of ImageFetcher (10 slots).
MaxBatch == 9
MaxUrls == 11

\* The longest image list of a request followed through the whole pipeline.
MaxChain == 3

\* --------------------------------------------------------------- constants
hash_size == 8
HashBits == hash_size * hash_size
SimThresholdNum == 9
SimThresholdDen == 10
FullHD == 1920 * 1080
QDen == 2 * FullHD

\* ------------------------------------------------------------------- state
\* Deduplicator.deduplicate: its argument, its locals and its result; the
\* result of a first call when the caller feeds it back (first_unique); the
\* result of Deduplicator.get_cluster_info on the same argument (cluster_info).
VARIABLES images, image_hashes, clusters, unique_images, first_unique, dd_run, dd_pc,
          cluster_info

dd_vars == <<images, image_hashes, clusters, unique_images, first_unique, dd_run, dd_pc,
             cluster_info>>

\* lambda_handler / process_images: the detector's results (app.py:142), the
\* results kept for the report (app.py:152), the response fields, the HTTP
\* status, the process's set iteration order, and the previous response to
\* the same request (first_report).
VARIABLES det_results, proc_results, report, status, hash_order, first_report, rp_run, rp_pc

\* The counts of the ProcessingResult process_images returns (app.py:155-161)
\* and the SourceImages generate_response builds from them (app.py:191-197).
VARIABLES processing_result, source_images

rp_vars == <<det_results, proc_results, report, status, hash_order, first_report, rp_run, rp_pc,
             processing_result, source_images>>

\* DamageDetector.analyze_batch: the images, one task per image, the tasks'
\* results, the semaphore's free permits, the images whose Gemini call
\* failed, and the installed pydantic's treatment of enum members in Literals.
VARIABLES det_images, task, task_result, semaphore, call_failed, literal_accepts_enum

dt_vars == <<det_images, task, task_result, semaphore, call_failed, literal_accepts_enum>>

\* QualityAnalyzer.analyze_batch and the filter of process_images: the
\* downloaded images, one task per image, the outcome of each task's executor
\* call, the tasks' results, the semaphore's free permits, the images whose executor call raises, and the images kept
\* for deduplication (app.py:136).
VARIABLES qa_images, qa_task, qa_call, qa_result, qa_semaphore, qa_failing,
          quality_results, high_quality_images, qa_pc

qa_vars == <<qa_images, qa_task, qa_call, qa_result, qa_semaphore, qa_failing,
             quality_results, high_quality_images, qa_pc>>

\* ImageFetcher._fetch_images_async: the URLs, one task per URL, the number of
\* download attempts made for each URL, the attempt that succeeded (0: none),
\* the tasks' results, the semaphore's free permits and the returned list.
VARIABLES urls, ft_task, attempts, succeeded_at, ft_result, ft_semaphore,
          successful_downloads, ft_pc

ft_vars == <<urls, ft_task, attempts, succeeded_at, ft_result, ft_semaphore,
             successful_downloads, ft_pc>>

\* lambda_handler up to the call of process_images: the event's body, the
\* validated request, the environment (GEMINI_API_KEY set or not), the
\* response's status code and the URLs handed to the fetcher.
VARIABLES body, request, api_key_set, rq_status, fetch_input, rq_pc

rq_vars == <<body, request, api_key_set, rq_status, fetch_input, rq_pc>>

ext_vars == <<qa_vars, ft_vars, rq_vars>>

vars == <<dd_vars, rp_vars, dt_vars, ext_vars>>

\* ----------------------------------------------------------------- helpers
RECURSIVE SumSeq(_, _)
SumSeq(f, n) == IF n = 0 THEN 0 ELSE f[n] + SumSeq(f, n - 1)

Min(a, b) == IF a <= b THEN a ELSE b

Range(s) == {s[k] : k \in 1..Len(s)}

\* An 8x8 thumbnail whose pixels in S have luminance hi and the others lo.
Luma(S, hi, lo) == [i \in 1..HashBits |-> IF i \in S THEN hi ELSE lo]

\* The image payloads the inputs are drawn from.
ImageBytes ==
  { [decodable |-> TRUE,  width |-> 640,  height |-> 480,  luma |-> Luma({}, 0, 128)],
    [decodable |-> TRUE,  width |-> 1920, height |-> 1080, luma |-> Luma({}, 0, 90)],
    [decodable |-> TRUE,  width |-> 1920, height |-> 1080, luma |-> Luma(1..6, 200, 50)],
    [decodable |-> TRUE,  width |-> 1920, height |-> 1080, luma |-> Luma(1..7, 200, 50)],
    [decodable |-> TRUE,  width |-> 640,  height |-> 480,  luma |-> Luma(7..12, 220, 40)],
    [decodable |-> TRUE,  width |-> 400,  height |-> 1200, luma |-> Luma(1..6, 180, 60)],
    [decodable |-> FALSE, width |-> 0,    height |-> 0,    luma |-> Luma({}, 0, 0)] }

\* Lists of (image_path, image_bytes) tuples; the k-th URL is the integer k.
ImageLists ==
  UNION { { [k \in 1..n |-> [path |-> k, bytes |-> f[k]]] : f \in [1..n -> ImageBytes] }
          : n \in 0..MaxImages }

\* ------------------------------------------------------------- Deduplicator
\* Deduplicator._calculate_perceptual_hash: never raises; any failure of
\* Image.open / convert / resize returns the default all-zero hash.
_calculate_perceptual_hash(image_bytes) ==
  IF ~image_bytes.decodable
  THEN [exc |-> FALSE, value |-> [i \in 1..HashBits |-> 0]]
  ELSE LET pixels == image_bytes.luma
           total  == SumSeq(pixels, HashBits)
       IN  [exc |-> FALSE,
            value |-> [i \in 1..HashBits |->
                         IF pixels[i] * HashBits > total THEN 1 ELSE 0]]

\* Deduplicator._calculate_quality_score, as the integer QDen * score.
_calculate_quality_score(image_bytes) ==
  IF ~image_bytes.decodable
  THEN [exc |-> FALSE, value |-> QDen \div 2]
  ELSE LET width  == image_bytes.width
           height == image_bytes.height
           resolution_score == Min(FullHD, width * height)
           aspect_score == IF height <= 2 * width /\ width <= 2 * height
                           THEN FullHD ELSE FullHD \div 2
       IN  [exc |-> FALSE, value |-> resolution_score + aspect_score]

\* A distance that leaves the first position out.
RECURSIVE Hamming_skipfirst(_, _, _)
Hamming_skipfirst(hash1, hash2, n) ==
  IF n <= 1 THEN 0
  ELSE (IF hash1[n] # hash2[n] THEN 1 ELSE 0) + Hamming_skipfirst(hash1, hash2, n - 1)

RECURSIVE Hamming(_, _, _)
Hamming(hash1, hash2, n) ==
  IF n = 0 THEN 0
  ELSE (IF hash1[n] # hash2[n] THEN 1 ELSE 0) + Hamming(hash1, hash2, n - 1)

\* The similarity without the "1.0 -".
_calculate_similarity_nocomplement(hash1, hash2) ==
  IF Len(hash1) # Len(hash2) THEN [num |-> 0, den |-> 1]
  ELSE [num |-> Hamming(hash1, hash2, Len(hash1)), den |-> Len(hash1)]

\* Deduplicator._calculate_similarity: 1 - hamming/len as num/den.
_calculate_similarity(hash1, hash2) ==
  IF Len(hash1) # Len(hash2) THEN [num |-> 0, den |-> 1]
  ELSE [num |-> Len(hash1) - Hamming(hash1, hash2, Len(hash1)), den |-> Len(hash1)]

AtLeastThreshold_low(similarity) ==
  similarity.num * SimThresholdDen >= (SimThresholdNum - 1) * similarity.den

\* similarity >= self.similarity_threshold (0.9)
AtLeastThreshold(similarity) ==
  similarity.num * SimThresholdDen >= SimThresholdNum * similarity.den

\* The inner loop without processed.add(j).
RECURSIVE ScanSimilar_noadd(_, _, _, _, _)
ScanSimilar_noadd(hashes, img1, j, cluster, processed) ==
  IF j > Len(hashes) THEN [cluster |-> cluster, processed |-> processed]
  ELSE IF j \in processed THEN ScanSimilar_noadd(hashes, img1, j + 1, cluster, processed)
  ELSE IF AtLeastThreshold(_calculate_similarity(img1.hash, hashes[j].hash))
       THEN ScanSimilar_noadd(hashes, img1, j + 1, Append(cluster, hashes[j]), processed)
       ELSE ScanSimilar_noadd(hashes, img1, j + 1, cluster, processed)

\* Inner loop of _cluster_similar_images: for j in i+1.. (lines 165-172).
RECURSIVE ScanSimilar(_, _, _, _, _)
ScanSimilar(hashes, img1, j, cluster, processed) ==
  IF j > Len(hashes) THEN [cluster |-> cluster, processed |-> processed]
  ELSE IF j \in processed THEN ScanSimilar(hashes, img1, j + 1, cluster, processed)
  ELSE IF AtLeastThreshold(_calculate_similarity(img1.hash, hashes[j].hash))
       THEN ScanSimilar(hashes, img1, j + 1, Append(cluster, hashes[j]), processed \cup {j})
       ELSE ScanSimilar(hashes, img1, j + 1, cluster, processed)

\* An inner loop that compares with the cluster's latest member.
RECURSIVE ScanSimilar_chain(_, _, _, _)
ScanSimilar_chain(hashes, j, cluster, processed) ==
  IF j > Len(hashes) THEN [cluster |-> cluster, processed |-> processed]
  ELSE IF j \in processed THEN ScanSimilar_chain(hashes, j + 1, cluster, processed)
  ELSE IF AtLeastThreshold(_calculate_similarity(cluster[Len(cluster)].hash, hashes[j].hash))
       THEN ScanSimilar_chain(hashes, j + 1, Append(cluster, hashes[j]), processed \cup {j})
       ELSE ScanSimilar_chain(hashes, j + 1, cluster, processed)

\* An outer loop whose clusters grow by similarity to their latest member.
RECURSIVE ClusterFrom_chain(_, _, _, _)
ClusterFrom_chain(hashes, i, cs, processed) ==
  IF i > Len(hashes) THEN cs
  ELSE IF i \in processed THEN ClusterFrom_chain(hashes, i + 1, cs, processed)
  ELSE LET r == ScanSimilar_chain(hashes, i + 1, <<hashes[i]>>, processed \cup {i})
       IN  ClusterFrom_chain(hashes, i + 1, Append(cs, r.cluster), r.processed)

\* Outer loop of _cluster_similar_images: for i, img1 in enumerate(...) (lines 156-174).
RECURSIVE ClusterFrom(_, _, _, _)
ClusterFrom(hashes, i, cs, processed) ==
  IF i > Len(hashes) THEN cs
  ELSE IF i \in processed THEN ClusterFrom(hashes, i + 1, cs, processed)
  ELSE LET r == ScanSimilar(hashes, hashes[i], i + 1, <<hashes[i]>>, processed \cup {i})
       IN  ClusterFrom(hashes, i + 1, Append(cs, r.cluster), r.processed)

\* Every image opens a cluster of its own.
_cluster_similar_images_singletons(hashes) == [k \in 1..Len(hashes) |-> <<hashes[k]>>]

\* Deduplicator._cluster_similar_images
_cluster_similar_images(hashes) == ClusterFrom(hashes, 1, <<>>, {})

\* The hashing loop of deduplicate (lines 43-56).
RECURSIVE HashAll(_, _, _)
HashAll(imgs, k, acc) ==
  IF k > Len(imgs) THEN acc
  ELSE LET phash == _calculate_perceptual_hash(imgs[k].bytes)
           quality_score == _calculate_quality_score(imgs[k].bytes)
       IN  IF phash.exc \/ quality_score.exc
           THEN HashAll(imgs, k + 1, acc)
           ELSE HashAll(imgs, k + 1,
                        Append(acc, [path |-> imgs[k].path, bytes |-> imgs[k].bytes,
                                     hash |-> phash.value,
                                     quality_score |-> quality_score.value]))

\* max that keeps the last of several equal keys.
RECURSIVE MaxByQuality_last(_, _, _)
MaxByQuality_last(cluster, k, best) ==
  IF k > Len(cluster) THEN best
  ELSE IF cluster[k].quality_score >= best.quality_score
       THEN MaxByQuality_last(cluster, k + 1, cluster[k])
       ELSE MaxByQuality_last(cluster, k + 1, best)

\* max(cluster, key=quality_score): the first member with the largest key.
RECURSIVE MaxByQuality(_, _, _)
MaxByQuality(cluster, k, best) ==
  IF k > Len(cluster) THEN best
  ELSE IF cluster[k].quality_score > best.quality_score
       THEN MaxByQuality(cluster, k + 1, cluster[k])
       ELSE MaxByQuality(cluster, k + 1, best)

\* The selection loop of deduplicate (lines 62-67).
RECURSIVE SelectBest(_, _, _)
SelectBest(cs, c, acc) ==
  IF c > Len(cs) THEN acc
  ELSE IF Len(cs[c]) = 0 THEN SelectBest(cs, c + 1, acc)
  ELSE LET best_image == MaxByQuality(cs[c], 2, cs[c][1])
       IN  SelectBest(cs, c + 1,
                      Append(acc, [path |-> best_image.path, bytes |-> best_image.bytes]))

\* DeduplicationResult(...) (schemas.py:171-176)
DeduplicationResult(total_images, num_clusters, duplicates_removed, cluster_sizes) ==
  [total_images |-> total_images, clusters |-> num_clusters,
   duplicates_removed |-> duplicates_removed, cluster_sizes |-> cluster_sizes]

\* No call of get_cluster_info has returned yet.
NoClusterInfo == DeduplicationResult(-1, -1, -1, <<>>)

\* A short-input branch that reports one cluster whatever the input.
get_cluster_info_onecluster(imgs) ==
  IF Len(imgs) <= 1
  THEN DeduplicationResult(Len(imgs), 1, 0, <<1>>)
  ELSE LET hashes == HashAll(imgs, 1, <<>>)
           cs == _cluster_similar_images(hashes)
       IN  DeduplicationResult(Len(imgs), Len(cs), Len(imgs) - Len(cs),
                               [c \in 1..Len(cs) |-> Len(cs[c])])

\* Deduplicator.get_cluster_info; its hashing loop (lines 220-233) is the
\* loop of deduplicate.
get_cluster_info(imgs) ==
  IF Len(imgs) <= 1
  THEN DeduplicationResult(Len(imgs), Len(imgs), 0, [k \in 1..Len(imgs) |-> 1])
  ELSE LET hashes == HashAll(imgs, 1, <<>>)
           cs == _cluster_similar_images(hashes)
           total_images == Len(imgs)
           num_clusters == Len(cs)
           duplicates_removed == total_images - num_clusters
       IN  DeduplicationResult(total_images, num_clusters, duplicates_removed,
                               [c \in 1..Len(cs) |-> Len(cs[c])])

DedupInit ==
  /\ images \in ImageLists
  /\ image_hashes = <<>>
  /\ clusters = <<>>
  /\ unique_images = <<>>
  /\ first_unique = <<>>
  /\ dd_run = 1
  /\ dd_pc = "call"
  /\ cluster_info = NoClusterInfo

\* Deduplicator.deduplicate(images)
Deduplicate ==
  /\ dd_pc = "call"
  /\ IF Len(images) <= 1
     THEN /\ unique_images' = images
          /\ image_hashes' = <<>>
          /\ clusters' = <<>>
     ELSE /\ image_hashes' = HashAll(images, 1, <<>>)
          /\ clusters' = _cluster_similar_images(image_hashes')
          /\ unique_images' = SelectBest(clusters', 1, <<>>)
  /\ dd_pc' = "done"
  /\ UNCHANGED <<images, first_unique, dd_run, cluster_info, rp_vars, dt_vars, ext_vars>>

\* The caller feeds the result back: deduplicate(deduplicate(xs)).
DeduplicateAgain ==
  /\ dd_pc = "done"
  /\ dd_run = 1
  /\ first_unique' = unique_images
  /\ images' = unique_images
  /\ dd_run' = 2
  /\ dd_pc' = "call"
  /\ cluster_info' = NoClusterInfo
  /\ UNCHANGED <<image_hashes, clusters, unique_images, rp_vars, dt_vars, ext_vars>>

\* Deduplicator.get_cluster_info(images), called on the argument of
\* deduplicate; the method reads and writes no state of the object.
GetClusterInfo ==
  /\ dd_pc \in {"call", "done"}
  /\ cluster_info = NoClusterInfo
  /\ cluster_info' = get_cluster_info(images)
  /\ UNCHANGED <<images, image_hashes, clusters, unique_images, first_unique, dd_run,
                 dd_pc, rp_vars, dt_vars, ext_vars>>

\* ---------------------------------------------------------------- schemas
None == "None"
UNKNOWN == "unknown"
MODERATE == 2
AllAreas == <<"roof", "attic", "siding", "garage", "windows", "gutters">>

\* Python truthiness of an Optional[str].
Truthy(str) == str # None /\ str # ""

\* DamageAnalysis(**kwargs): pydantic validation of the required fields
\* (schemas.py:155-163); error and damage_indicators have defaults.
DamageAnalysisRequired ==
  {"image_path", "has_damage", "area", "severity", "quality_score", "confidence", "notes"}

DamageAnalysis(kwargs) ==
  IF DamageAnalysisRequired \subseteq DOMAIN kwargs
  THEN [exc |-> FALSE,
        value |-> [image_path |-> kwargs.image_path, has_damage |-> kwargs.has_damage,
                   area |-> kwargs.area, severity |-> kwargs.severity,
                   quality_score |-> kwargs.quality_score,
                   confidence |-> kwargs.confidence,
                   error |-> IF "error" \in DOMAIN kwargs THEN kwargs.error ELSE None,
                   notes |-> kwargs.notes]]
  ELSE [exc |-> TRUE, value |-> None]

\* ------------------------------------------------------------- aggregation
\* quality_score and confidence are integers in 0..ScoreScale (value/ScoreScale);
\* avg_severity and overall severity are returned in tenths, confidence in
\* hundredths; round() is round-half-even on the exact quotient (the binary
\* representation error of the float quotient is not modelled).
ScoreScale == 10
MaxResults == 3

confirmation_threshold == 2
max_representative_images == 3
min_photos_per_area == 2
min_total_areas == 2

RoundHalfEven(num, den) ==
  LET q == num \div den
      r == num % den
  IN  IF 2 * r < den THEN q
      ELSE IF 2 * r > den THEN q + 1
      ELSE IF q % 2 = 0 THEN q ELSE q + 1

\* sum(r.<field> for r in results)
SumField(results, field) ==
  SumSeq([k \in 1..Len(results) |-> results[k][field]], Len(results))

\* sum(r.severity * r.quality_score for r in results)
SumSeverityTimesQuality(results) ==
  SumSeq([k \in 1..Len(results) |-> results[k].severity * results[k].quality_score],
         Len(results))

HasDamage(r) == r.has_damage
DamagedOnly(results) == SelectSeq(results, HasDamage)

\* DamageAggregator._group_by_area: a dict in insertion order.
RECURSIVE GroupFrom(_, _, _)
GroupFrom(results, k, groups) ==
  IF k > Len(results) THEN groups
  ELSE LET r == results[k]
       IN  IF \E g \in 1..Len(groups) : groups[g].area = r.area
           THEN LET g == CHOOSE x \in 1..Len(groups) : groups[x].area = r.area
                IN  GroupFrom(results, k + 1,
                              [groups EXCEPT ![g].results = Append(@, r)])
           ELSE GroupFrom(results, k + 1,
                          Append(groups, [area |-> r.area, results |-> <<r>>]))

_group_by_area(damage_results) == GroupFrom(damage_results, 1, <<>>)

IsHighSeverity_strict(r) == r.severity > MODERATE
IsHighSeverity(r) == r.severity >= MODERATE

_check_damage_confirmation_strict(damage_results) ==
  IF Len(damage_results) < confirmation_threshold THEN FALSE
  ELSE Len(SelectSeq(damage_results, IsHighSeverity_strict)) >= confirmation_threshold

\* DamageAggregator._check_damage_confirmation
_check_damage_confirmation(damage_results) ==
  IF Len(damage_results) < confirmation_threshold THEN FALSE
  ELSE Len(SelectSeq(damage_results, IsHighSeverity)) >= confirmation_threshold

\* A weighted sum that is never divided by the total weight.
_calculate_area_severity_nodiv(damage_results) ==
  IF Len(damage_results) = 0 THEN 0
  ELSE 10 * SumField(damage_results, "severity")

\* DamageAggregator._calculate_area_severity followed by round(avg, 1), in tenths.
_calculate_area_severity(damage_results) ==
  IF Len(damage_results) = 0 THEN 0
  ELSE LET total_weight == SumField(damage_results, "quality_score")
       IN  IF total_weight > 0
           THEN RoundHalfEven(10 * SumSeverityTimesQuality(damage_results), total_weight)
           ELSE RoundHalfEven(10 * SumField(damage_results, "severity"),
                              Len(damage_results))

\* sorted(..., key=quality_score, reverse=True): stable, descending.
RECURSIVE InsertDesc(_, _, _)
InsertDesc(sorted, r, k) ==
  IF k > Len(sorted) THEN Append(sorted, r)
  ELSE IF sorted[k].quality_score < r.quality_score
       THEN SubSeq(sorted, 1, k - 1) \o <<r>> \o SubSeq(sorted, k, Len(sorted))
       ELSE InsertDesc(sorted, r, k + 1)

RECURSIVE SortedDesc(_, _, _)
SortedDesc(results, k, acc) ==
  IF k > Len(results) THEN acc
  ELSE SortedDesc(results, k + 1, InsertDesc(acc, results[k], 1))

\* DamageAggregator._select_representative_images
_select_representative_images(damage_results) ==
  IF Len(damage_results) = 0 THEN <<>>
  ELSE LET sorted_results == SortedDesc(damage_results, 1, <<>>)
           top == SubSeq(sorted_results, 1, Min(max_representative_images, Len(sorted_results)))
       IN  [k \in 1..Len(top) |-> top[k].image_path]

\* list(dict.fromkeys(notes_list)): first occurrences, in order.
RECURSIVE UniqueNotes(_, _, _)
UniqueNotes(results, k, acc) ==
  IF k > Len(results) THEN acc
  ELSE IF Truthy(results[k].notes) /\ results[k].notes \notin Range(acc)
       THEN UniqueNotes(results, k + 1, Append(acc, results[k].notes))
       ELSE UniqueNotes(results, k + 1, acc)

\* DamageAggregator._generate_area_notes; "; ".join(parts) is kept as parts.
_generate_area_notes(area, damage_results) ==
  IF Len(damage_results) = 0
  THEN [text |-> "No damage detected in", area |-> area, parts |-> <<>>]
  ELSE LET unique_notes == UniqueNotes(damage_results, 1, <<>>)
       IN  IF Len(unique_notes) > 0
           THEN [text |-> "joined", area |-> area, parts |-> unique_notes]
           ELSE [text |-> "Damage detected in", area |-> area, parts |-> <<>>]

\* An aggregate whose count is the number of all results of the area.
_process_area_countall(area, results) ==
  LET damage_results == DamagedOnly(results)
  IN  [area |-> area,
       damage_confirmed |-> _check_damage_confirmation(damage_results),
       primary_peril |-> "wind",
       count |-> Len(results),
       avg_severity |-> _calculate_area_severity(damage_results),
       representative_images |-> _select_representative_images(damage_results),
       notes |-> _generate_area_notes(area, damage_results)]

\* DamageAggregator._process_area
_process_area(area, results) ==
  LET damage_results == DamagedOnly(results)
  IN  [area |-> area,
       damage_confirmed |-> _check_damage_confirmation(damage_results),
       primary_peril |-> "wind",
       count |-> Len(damage_results),
       avg_severity |-> _calculate_area_severity(damage_results),
       representative_images |-> _select_representative_images(damage_results),
       notes |-> _generate_area_notes(area, damage_results)]

\* The loop without its "continue" for the unknown area.
RECURSIVE ProcessGroups_keepunknown(_, _, _)
ProcessGroups_keepunknown(area_groups, g, aggregated_areas) ==
  IF g > Len(area_groups) THEN aggregated_areas
  ELSE ProcessGroups_keepunknown(area_groups, g + 1,
         Append(aggregated_areas,
                _process_area(area_groups[g].area, area_groups[g].results)))

\* The loop of aggregate_damage_by_area (lines 50-56).
RECURSIVE ProcessGroups(_, _, _)
ProcessGroups(area_groups, g, aggregated_areas) ==
  IF g > Len(area_groups) THEN aggregated_areas
  ELSE IF area_groups[g].area = UNKNOWN
       THEN ProcessGroups(area_groups, g + 1, aggregated_areas)
       ELSE ProcessGroups(area_groups, g + 1,
              Append(aggregated_areas,
                     _process_area(area_groups[g].area, area_groups[g].results)))

\* DamageAggregator.aggregate_damage_by_area
aggregate_damage_by_area(damage_results) ==
  IF Len(damage_results) = 0 THEN <<>>
  ELSE ProcessGroups(_group_by_area(damage_results), 1, <<>>)

\* The mean of the per-area avg_severity values of the aggregates, in tenths.
calculate_overall_severity_areamean(damage_results) ==
  LET areas == aggregate_damage_by_area(DamagedOnly(damage_results))
  IN  IF Len(areas) = 0 THEN 0
      ELSE RoundHalfEven(SumField(areas, "avg_severity"), Len(areas))

\* SeverityCalculator.calculate_overall_severity, in tenths.
calculate_overall_severity(damage_results) ==
  IF Len(damage_results) = 0 THEN 0
  ELSE LET damage_results_filtered == DamagedOnly(damage_results)
           n == Len(damage_results_filtered)
           total_weight == SumField(damage_results_filtered, "quality_score")
       IN  IF n = 0 THEN 0
           ELSE IF total_weight = 0
           THEN RoundHalfEven(10 * SumField(damage_results_filtered, "severity"), n)
           ELSE RoundHalfEven(10 * SumSeverityTimesQuality(damage_results_filtered), total_weight)


\* Iteration order of a Python set of DamageArea members: it depends on the
\* interpreter's string hash seed, fixed when the process starts.  These are
\* the orders CPython 3.11 gives the six-member set for PYTHONHASHSEED = 0,
\* 1, 2; a subset is iterated in the order its members have here (CPython may
\* order a subset differently again, which only adds outcomes).
HashOrders ==
  { <<"gutters", "garage", "roof", "attic", "siding", "windows">>,
    <<"garage", "attic", "gutters", "roof", "siding", "windows">>,
    <<"roof", "windows", "siding", "attic", "garage", "gutters">> }

\* for x in some_set: the members of S in the process's iteration order.
SetIter(order, S) == SelectSeq(order, LAMBDA a : a \in S)

GapRecord(text, area, count) == [text |-> text, area |-> area, count |-> count]

\* A gap list that opens with the coverage catch-all.
identify_data_gaps_catchallfirst(areas, order) ==
  LET critical_areas == Range(AllAreas)
      analyzed_areas == {areas[k].area : k \in 1..Len(areas)}
      missing_critical == SetIter(order, critical_areas \ analyzed_areas)
      low_confidence_areas == SelectSeq(areas, LAMBDA a : a.count < min_photos_per_area)
      unconfirmed_areas == SelectSeq(areas, LAMBDA a : ~a.damage_confirmed /\ a.count > 0)
      total_areas == Len(areas)
  IN  (IF total_areas < min_total_areas
       THEN <<GapRecord("Limited area coverage - need more photos", "", 0)>>
       ELSE <<>>)
      \o [k \in 1..Len(missing_critical) |-> GapRecord("No photos", missing_critical[k], 0)]
      \o [k \in 1..Len(low_confidence_areas) |->
            GapRecord("Insufficient photos", low_confidence_areas[k].area,
                      low_confidence_areas[k].count)]
      \o [k \in 1..Len(unconfirmed_areas) |->
            GapRecord("Unconfirmed damage (severity too low)", unconfirmed_areas[k].area, 0)]

\* DataGapAnalyzer.identify_data_gaps
identify_data_gaps(areas, order) ==
  LET critical_areas == Range(AllAreas)
      analyzed_areas == {areas[k].area : k \in 1..Len(areas)}
      missing_critical == SetIter(order, critical_areas \ analyzed_areas)
      low_confidence_areas == SelectSeq(areas, LAMBDA a : a.count < min_photos_per_area)
      unconfirmed_areas == SelectSeq(areas, LAMBDA a : ~a.damage_confirmed /\ a.count > 0)
      total_areas == Len(areas)
  IN  [k \in 1..Len(missing_critical) |-> GapRecord("No photos", missing_critical[k], 0)]
      \o [k \in 1..Len(low_confidence_areas) |->
            GapRecord("Insufficient photos", low_confidence_areas[k].area,
                      low_confidence_areas[k].count)]
      \o [k \in 1..Len(unconfirmed_areas) |->
            GapRecord("Unconfirmed damage (severity too low)", unconfirmed_areas[k].area, 0)]
      \o (IF total_areas < min_total_areas
          THEN <<GapRecord("Limited area coverage - need more photos", "", 0)>>
          ELSE <<>>)

\* ConfidenceCalculator.calculate_confidence, in hundredths:
\*   0.3*avg_quality + 0.2*coverage + 0.2*consistency + 0.3*avg_confidence
\* over the common denominator 30 * ScoreScale * total_images.
calculate_confidence(damage_results) ==
  IF Len(damage_results) = 0 THEN 0
  ELSE LET total_images == Len(damage_results)
           damage_images == Len(DamagedOnly(damage_results))
           sum_quality == SumField(damage_results, "quality_score")
           unique_areas == Cardinality({damage_results[k].area : k \in 1..total_images}
                                       \ {UNKNOWN})
           coverage3 == Min(3, unique_areas)
           consistency6 == IF damage_images > 0
                           THEN 6 * ScoreScale * damage_images
                           ELSE 3 * ScoreScale * total_images
           sum_confidence == SumField(damage_results, "confidence")
           num == 9 * sum_quality + 2 * ScoreScale * total_images * coverage3
                  + consistency6 + 9 * sum_confidence
       IN  RoundHalfEven(10 * num, 3 * ScoreScale * total_images)

\* --------------------------------------------------------------- handler
\* The classifications a detector may hand to process_images (app.py:142);
\* image_path is filled in by position.
Analysis(area, has_damage, severity, quality_score, confidence, error, notes) ==
  [area |-> area, has_damage |-> has_damage, severity |-> severity,
   quality_score |-> quality_score, confidence |-> confidence,
   error |-> error, notes |-> notes]

Analyses ==
  { Analysis("roof",   TRUE,  4, ScoreScale, ScoreScale, None, "shingle uplift"),
    Analysis("roof",   TRUE,  2, 5, 5, None, "shingle uplift"),
    Analysis("roof",   TRUE,  1, 0, 5, None, ""),
    Analysis("siding", FALSE, 0, ScoreScale, ScoreScale, None, "intact"),
    Analysis("siding", TRUE,  4, 0, 8, None, "panel torn"),
    Analysis("siding", TRUE,  3, 5, 5, "", "panel torn"),
    Analysis("attic",  TRUE,  2, ScoreScale, 5, None, "leak"),
    Analysis(UNKNOWN,  TRUE,  4, ScoreScale, 5, None, "debris"),
    Analysis(UNKNOWN,  FALSE, 0, 0, 0, "timeout", ""),
    Analysis("roof",   TRUE,  4, ScoreScale, ScoreScale, "quota exceeded", "shingle uplift") }

WithPath(a, path) ==
  [image_path |-> path, has_damage |-> a.has_damage, area |-> a.area,
   severity |-> a.severity, quality_score |-> a.quality_score,
   confidence |-> a.confidence, error |-> a.error, notes |-> a.notes]

AnalysisLists ==
  UNION { { [k \in 1..n |-> WithPath(f[k], k)] : f \in [1..n -> Analyses] }
          : n \in 0..MaxResults }

NoReport == [areas |-> <<>>, overall_damage_severity |-> 0, data_gaps |-> <<>>,
             confidence |-> 0]

NoError_keepall(r) == TRUE

\* "not result.error" (app.py:152)
NoError(r) == ~Truthy(r.error)

\* ProcessingResult(total_images=..., ...) without its damage_results.
ProcessingResult(total_images, analyzed_images, discarded_low_quality, cluster_count) ==
  [total_images |-> total_images, analyzed_images |-> analyzed_images,
   discarded_low_quality |-> discarded_low_quality, clusters |-> cluster_count]

\* process_images has not returned.
NoProcessingResult == ProcessingResult(-1, -1, -1, -1)

\* SourceImages(total=results.total_images, ...) (app.py:191-197)
SourceImages(results) ==
  [total |-> results.total_images, analyzed |-> results.analyzed_images,
   discarded_low_quality |-> results.discarded_low_quality, clusters |-> results.clusters]

NoSourceImages == SourceImages(NoProcessingResult)

\* generate_response (app.py:185-208): the fields computed from the results.
generate_response(damage_results, order) ==
  LET areas == aggregate_damage_by_area(damage_results)
  IN  [areas |-> areas,
       overall_damage_severity |-> calculate_overall_severity(damage_results),
       data_gaps |-> identify_data_gaps(areas, order),
       confidence |-> calculate_confidence(damage_results)]

ReportInit ==
  /\ det_results \in AnalysisLists
  /\ proc_results = <<>>
  /\ report = NoReport
  /\ status = 0
  /\ hash_order \in HashOrders
  /\ first_report = NoReport
  /\ processing_result = NoProcessingResult
  /\ source_images = NoSourceImages
  /\ rp_run = 1
  /\ rp_pc = "detected"

\* A result whose discarded count leaves out the URLs that failed to download.
FilterErrors_downloadedonly ==
  /\ rp_pc = "detected"
  /\ proc_results' = SelectSeq(det_results, NoError)
  /\ processing_result' = ProcessingResult(Len(urls), Len(high_quality_images),
                                           Len(successful_downloads) - Len(high_quality_images),
                                           Len(unique_images))
  /\ rp_pc' = "processed"
  /\ UNCHANGED <<det_results, report, status, hash_order, first_report, rp_run, source_images>>
  /\ UNCHANGED <<dd_vars, dt_vars, ext_vars>>

\* process_images after the detector returned (app.py:144-161).
FilterErrors ==
  /\ rp_pc = "detected"
  /\ proc_results' = SelectSeq(det_results, NoError)
  /\ processing_result' = ProcessingResult(Len(urls), Len(high_quality_images),
                                           Len(urls) - Len(high_quality_images),
                                           Len(unique_images))
  /\ rp_pc' = "processed"
  /\ UNCHANGED <<det_results, report, status, hash_order, first_report, rp_run, source_images>>
  /\ UNCHANGED <<dd_vars, dt_vars, ext_vars>>

\* generate_response and the 200 return of lambda_handler (app.py:86-103).
GenerateResponse ==
  /\ rp_pc = "processed"
  /\ report' = generate_response(proc_results, hash_order)
  /\ source_images' = SourceImages(processing_result)
  /\ status' = 200
  /\ rp_pc' = "returned"
  /\ UNCHANGED <<det_results, proc_results, hash_order, first_report, rp_run, processing_result>>
  /\ UNCHANGED <<dd_vars, dt_vars, ext_vars>>

\* The same request is handled once more, by the same interpreter process or
\* by a freshly started one (whose hash seed is drawn anew).
InvokeAgain ==
  /\ rp_pc = "returned"
  /\ status = 200
  /\ rp_run = 1
  /\ first_report' = report
  /\ hash_order' \in HashOrders
  /\ rp_run' = 2
  /\ rp_pc' = "detected"
  /\ proc_results' = <<>>
  /\ report' = NoReport
  /\ status' = 0
  /\ processing_result' = NoProcessingResult
  /\ source_images' = NoSourceImages
  /\ UNCHANGED <<det_results, dd_vars, dt_vars, ext_vars>>

\* --------------------------------------------------------------- detector
batch_size == 2

\* What self.chain.invoke does for one image: it returns a structured
\* output, returns nothing, or raises.
GeminiOutput(kind, has_damage, location, severity, confidence, notes) ==
  [kind |-> kind, has_damage |-> has_damage, location |-> location,
   severity |-> severity, confidence |-> confidence, notes |-> notes]

GeminiOutcomes ==
  { GeminiOutput("response", TRUE,  "roof",   3, 9, "shingle uplift"),
    GeminiOutput("response", TRUE,  "roof",   2, 5, "ridge cap missing"),
    GeminiOutput("response", FALSE, "siding", 0, ScoreScale, "intact"),
    GeminiOutput("empty",    FALSE, UNKNOWN,  0, 0, ""),
    GeminiOutput("raise",    FALSE, UNKNOWN,  0, 0, "") }

\* DamageDetector._analyze_with_gemini: an empty response or an exception is
\* replaced by DamageAnalysisGeminiOutput(location=DamageArea.UNKNOWN, ...).
\* Whether pydantic validates the enum member DamageArea.UNKNOWN against
\* Literal['roof', ..., 'unknown'] depends on the installed pydantic release
\* (accepts); when it does not, the constructor raises out of the handler.
_analyze_with_gemini(outcome, accepts) ==
  IF outcome.kind = "response"
  THEN [exc |-> FALSE, value |-> outcome]
  ELSE IF accepts
       THEN [exc |-> FALSE, value |-> GeminiOutput("response", FALSE, UNKNOWN, 0, 0, "")]
       ELSE [exc |-> TRUE, value |-> outcome]

\* The classification built in the except branches (lines 74-83, 129-138):
\* no notes argument.
ErrorAnalysisKwargs(image_path) ==
  [image_path |-> image_path, has_damage |-> FALSE, area |-> UNKNOWN, severity |-> 0,
   quality_score |-> 0, confidence |-> 0, error |-> "str(e)"]

\* DamageDetector.analyze_single_image
\* A detector that reports full image quality for every classification.
analyze_single_image_scored(image_path, outcome, accepts) ==
  LET response == _analyze_with_gemini(outcome, accepts)
  IN  IF ~response.exc
      THEN DamageAnalysis([image_path |-> image_path,
                           has_damage |-> response.value.has_damage,
                           area |-> response.value.location,
                           severity |-> response.value.severity,
                           quality_score |-> ScoreScale,
                           confidence |-> response.value.confidence,
                           error |-> None,
                           notes |-> response.value.notes])
      ELSE DamageAnalysis(ErrorAnalysisKwargs(image_path))

analyze_single_image(image_path, outcome, accepts) ==
  LET response == _analyze_with_gemini(outcome, accepts)
  IN  IF ~response.exc
      THEN DamageAnalysis([image_path |-> image_path,
                           has_damage |-> response.value.has_damage,
                           area |-> response.value.location,
                           severity |-> response.value.severity,
                           quality_score |-> 0,
                           confidence |-> response.value.confidence,
                           error |-> None,
                           notes |-> response.value.notes])
      ELSE DamageAnalysis(ErrorAnalysisKwargs(image_path))

\* analyze_one inside DamageDetector.analyze_batch (lines 61-83)
analyze_one(image_path, outcome, accepts) ==
  LET result == analyze_single_image(image_path, outcome, accepts)
  IN  IF ~result.exc THEN result
      ELSE DamageAnalysis(ErrorAnalysisKwargs(image_path))

DetectInit ==
  /\ det_images \in {[k \in 1..n |-> k] : n \in 0..MaxImages}
  /\ task = [k \in 1..Len(det_images) |-> "waiting"]
  /\ task_result = [k \in 1..Len(det_images) |-> None]
  /\ semaphore = batch_size
  /\ call_failed = {}
  /\ literal_accepts_enum \in BOOLEAN
  /\ det_results = <<>>
  /\ proc_results = <<>>
  /\ report = NoReport
  /\ status = 0
  /\ hash_order \in HashOrders
  /\ first_report = NoReport
  /\ processing_result = NoProcessingResult
  /\ source_images = NoSourceImages
  /\ rp_run = 1
  /\ rp_pc = "gather"

\* async with semaphore: waiters are woken in task-creation order.
Acquire(i) ==
  /\ rp_pc = "gather"
  /\ task[i] = "waiting"
  /\ semaphore > 0
  /\ \A j \in 1..(i - 1) : task[j] # "waiting"
  /\ task' = [task EXCEPT ![i] = "running"]
  /\ semaphore' = semaphore - 1
  /\ UNCHANGED <<det_images, task_result, call_failed, literal_accepts_enum, rp_vars, dd_vars, ext_vars>>

\* The executor finishes analyze_single_image for image i; analyze_one
\* returns or raises and releases the semaphore.
AnalyzeOne(i) ==
  /\ rp_pc = "gather"
  /\ task[i] = "running"
  /\ \E outcome \in GeminiOutcomes :
       LET result == analyze_one(det_images[i], outcome, literal_accepts_enum)
       IN  /\ task' = [task EXCEPT ![i] = IF result.exc THEN "raised" ELSE "returned"]
           /\ task_result' = [task_result EXCEPT ![i] = result.value]
           /\ call_failed' = IF outcome.kind = "response" THEN call_failed
                             ELSE call_failed \cup {i}
  /\ semaphore' = semaphore + 1
  /\ UNCHANGED <<det_images, literal_accepts_enum, rp_vars, dd_vars, ext_vars>>

\* asyncio.gather(*tasks) returns the results in task order (line 86).
GatherReturn ==
  /\ rp_pc = "gather"
  /\ \A i \in 1..Len(det_images) : task[i] = "returned"
  /\ det_results' = task_result
  /\ rp_pc' = "detected"
  /\ UNCHANGED <<proc_results, report, status, hash_order, first_report, rp_run,
                 processing_result, source_images, dt_vars, dd_vars, ext_vars>>

\* asyncio.gather re-raises a task's exception into process_images; it
\* reaches the except of lambda_handler, which answers 500 (app.py:105-108).
GatherRaise ==
  /\ rp_pc = "gather"
  /\ \E i \in 1..Len(det_images) : task[i] = "raised"
  /\ status' = 500
  /\ rp_pc' = "returned"
  /\ UNCHANGED <<det_results, proc_results, report, hash_order, first_report, rp_run,
                 processing_result, source_images, dt_vars, dd_vars, ext_vars>>

\* ------------------------------------------------------- QualityAnalyzer
\* A score is the exact rational [num, den]; what analyze_single_image
\* reads from an image's bytes is whether cv2.imdecode returns an image,
\* returns None or raises, the decoded width and height, the variance of the
\* Laplacian, the mean of the V channel, the standard deviation of the gray
\* levels (as integers), and the sub-scores whose computation raises.
quality_batch_size == 8
min_width == 200
min_height == 200
max_width == 8000
max_height == 8000
blur_threshold == 100
optimal_area == 1024 * 1024

Max(a, b) == IF a >= b THEN a ELSE b

RECURSIVE GCD(_, _)
GCD(a, b) == IF b = 0 THEN a ELSE GCD(b, a % b)

Score(num, den) == [num |-> num, den |-> den]

QualityBytes ==
  { [decode |-> "none",   width |-> 0,    height |-> 0,    laplacian_var |-> 0,
     avg_brightness |-> 0,   contrast |-> 0,  raises |-> {}],
    [decode |-> "raises", width |-> 0,    height |-> 0,    laplacian_var |-> 0,
     avg_brightness |-> 0,   contrast |-> 0,  raises |-> {}],
    [decode |-> "image",  width |-> 1024, height |-> 1024, laplacian_var |-> 500,
     avg_brightness |-> 128, contrast |-> 60, raises |-> {}],
    [decode |-> "image",  width |-> 100,  height |-> 100,  laplacian_var |-> 0,
     avg_brightness |-> 128, contrast |-> 0,  raises |-> {}],
    [decode |-> "image",  width |-> 640,  height |-> 480,  laplacian_var |-> 10,
     avg_brightness |-> 20,  contrast |-> 5,  raises |-> {}],
    [decode |-> "image",  width |-> 9000, height |-> 9000, laplacian_var |-> 40,
     avg_brightness |-> 250, contrast |-> 30,
     raises |-> {"blur", "brightness", "contrast"}] }

\* QualityAnalyzer._calculate_blur_score
_calculate_blur_score(image) ==
  IF "blur" \in image.raises THEN Score(1, 2)
  ELSE Score(Min(blur_threshold, image.laplacian_var), blur_threshold)

\* QualityAnalyzer._calculate_brightness_score
_calculate_brightness_score(image) ==
  IF "brightness" \in image.raises THEN Score(1, 2)
  ELSE LET dist == IF image.avg_brightness >= 128 THEN image.avg_brightness - 128
                   ELSE 128 - image.avg_brightness
       IN  Score(Max(0, Min(128, 128 - dist)), 128)

\* QualityAnalyzer._calculate_contrast_score
_calculate_contrast_score(image) ==
  IF "contrast" \in image.raises THEN Score(1, 2)
  ELSE Score(Min(50, image.contrast), 50)

\* QualityAnalyzer._calculate_size_score; the ratio is kept in lowest terms.
_calculate_size_score(image) ==
  IF "size" \in image.raises THEN Score(1, 2)
  ELSE IF image.width < min_width \/ image.height < min_height THEN Score(0, 1)
  ELSE IF image.width > max_width \/ image.height > max_height THEN Score(1, 2)
  ELSE LET area == image.width * image.height
           g == GCD(area, optimal_area)
       IN  Score(Min(area, optimal_area) \div g, Max(area, optimal_area) \div g)

\* blur*0.4 + brightness*0.3 + contrast*0.2 + size*0.1 over the common
\* denominator 10 * 3200 * size.den (100, 128, 50 and 2 divide 3200).
WeightedScore(blur_score, brightness_score, contrast_score, size_score) ==
  Score(size_score.den * ( 4 * blur_score.num * (3200 \div blur_score.den)
                         + 3 * brightness_score.num * (3200 \div brightness_score.den)
                         + 2 * contrast_score.num * (3200 \div contrast_score.den) )
          + 3200 * size_score.num,
        10 * 3200 * size_score.den)

\* max(0.0, min(1.0, quality_score))
Clamp01(score) == Score(Max(0, Min(score.den, score.num)), score.den)

\* The body of analyze_single_image without its try/except.
quality_analyze_single_image_notry(image_bytes) ==
  IF image_bytes.decode = "raises" THEN [exc |-> TRUE, value |-> Score(0, 1)]
  ELSE IF image_bytes.decode = "none" THEN [exc |-> FALSE, value |-> Score(0, 1)]
  ELSE [exc |-> FALSE,
        value |-> Clamp01(WeightedScore(_calculate_blur_score(image_bytes),
                                        _calculate_brightness_score(image_bytes),
                                        _calculate_contrast_score(image_bytes),
                                        _calculate_size_score(image_bytes)))]

\* QualityAnalyzer.analyze_single_image
quality_analyze_single_image(image_bytes) ==
  IF image_bytes.decode = "raises" THEN [exc |-> FALSE, value |-> Score(0, 1)]
  ELSE IF image_bytes.decode = "none" THEN [exc |-> FALSE, value |-> Score(0, 1)]
  ELSE [exc |-> FALSE,
        value |-> Clamp01(WeightedScore(_calculate_blur_score(image_bytes),
                                        _calculate_brightness_score(image_bytes),
                                        _calculate_contrast_score(image_bytes),
                                        _calculate_size_score(image_bytes)))]

\* The result of a call that was never made.
NotCalled == [exc |-> TRUE, value |-> Score(-1, 1)]

\* An except branch that hands the failed image a passing score.
quality_analyze_one_passing(image_tuple, call) ==
  IF call.exc THEN [image |-> image_tuple, score |-> Score(1, 2)]
  ELSE [image |-> image_tuple, score |-> call.value]

\* analyze_one of QualityAnalyzer.analyze_batch (lines 46-58): the pair
\* returned for the executor call's outcome.
quality_analyze_one(image_tuple, call) ==
  IF call.exc THEN [image |-> image_tuple, score |-> Score(1, 10)]
  ELSE [image |-> image_tuple, score |-> call.value]

\* The pair of a task that has not returned yet.
NoPair(image_tuple) == [image |-> image_tuple, score |-> Score(-1, 1)]

\* QualityAnalyzer.is_acceptable_quality: quality_score >= 0.3
is_acceptable_quality(quality_score) == 10 * quality_score.num >= 3 * quality_score.den

\* "score > 0.3" (app.py:136)
AboveThreshold(score) == 10 * score.num > 3 * score.den

QualityImageLists ==
  UNION { { [k \in 1..n |-> [path |-> k, bytes |-> f[k]]] : f \in [1..n -> QualityBytes] }
          : n \in 0..MaxImages }

QualityInit ==
  /\ qa_images \in QualityImageLists
  /\ qa_task = [i \in 1..Len(qa_images) |-> "waiting"]
  /\ qa_call = [i \in 1..Len(qa_images) |-> NotCalled]
  /\ qa_result = [i \in 1..Len(qa_images) |-> NoPair(qa_images[i])]
  /\ qa_semaphore = quality_batch_size
  /\ qa_failing \in SUBSET (1..Len(qa_images))
  /\ quality_results = <<>>
  /\ high_quality_images = <<>>
  /\ qa_pc = "gather"

\* A batch of more images than semaphore slots, all with the same payload.
QualityBatchInit ==
  /\ \E n \in {MaxBatch - 1, MaxBatch} :
       \E b \in QualityBytes :
          /\ qa_images = [k \in 1..n |-> [path |-> k, bytes |-> b]]
          /\ qa_failing \in {{}, {1}, 1..n}
  /\ qa_task = [i \in 1..Len(qa_images) |-> "waiting"]
  /\ qa_call = [i \in 1..Len(qa_images) |-> NotCalled]
  /\ qa_result = [i \in 1..Len(qa_images) |-> NoPair(qa_images[i])]
  /\ qa_semaphore = quality_batch_size
  /\ quality_results = <<>>
  /\ high_quality_images = <<>>
  /\ qa_pc = "gather"

\* analyze_one enters "async with semaphore"; asyncio wakes waiters first in,
\* first out, and the tasks start in list order.
QaAcquire(i) ==
  /\ qa_pc = "gather"
  /\ qa_task[i] = "waiting"
  /\ \A j \in 1..(i - 1) : qa_task[j] # "waiting"
  /\ qa_semaphore > 0
  /\ qa_semaphore' = qa_semaphore - 1
  /\ qa_task' = [qa_task EXCEPT ![i] = "running"]
  /\ UNCHANGED <<qa_images, qa_call, qa_result, qa_failing, quality_results,
                 high_quality_images, qa_pc>>
  /\ UNCHANGED <<dd_vars, rp_vars, dt_vars, ft_vars, rq_vars>>

\* An analyze_one that keeps its slot when the executor call raises.
QaAnalyzeOne_keepslot(i) ==
  /\ qa_pc = "gather"
  /\ qa_task[i] = "running"
  /\ LET call == IF i \in qa_failing THEN NotCalled
                 ELSE quality_analyze_single_image(qa_images[i].bytes)
     IN  /\ qa_call' = [qa_call EXCEPT ![i] = call]
         /\ qa_result' = [qa_result EXCEPT ![i] = quality_analyze_one(qa_images[i], call)]
  /\ qa_semaphore' = IF i \in qa_failing THEN qa_semaphore ELSE qa_semaphore + 1
  /\ qa_task' = [qa_task EXCEPT ![i] = "done"]
  /\ UNCHANGED <<qa_images, qa_failing, quality_results, high_quality_images, qa_pc>>
  /\ UNCHANGED <<dd_vars, rp_vars, dt_vars, ft_vars, rq_vars>>

\* The executor call of task i returns or raises, analyze_one leaves the
\* semaphore and returns its pair; the calls finish in any order.
QaAnalyzeOne(i) ==
  /\ qa_pc = "gather"
  /\ qa_task[i] = "running"
  /\ LET call == IF i \in qa_failing THEN NotCalled
                 ELSE quality_analyze_single_image(qa_images[i].bytes)
     IN  /\ qa_call' = [qa_call EXCEPT ![i] = call]
         /\ qa_result' = [qa_result EXCEPT ![i] = quality_analyze_one(qa_images[i], call)]
  /\ qa_semaphore' = qa_semaphore + 1
  /\ qa_task' = [qa_task EXCEPT ![i] = "done"]
  /\ UNCHANGED <<qa_images, qa_failing, quality_results, high_quality_images, qa_pc>>
  /\ UNCHANGED <<dd_vars, rp_vars, dt_vars, ft_vars, rq_vars>>

\* asyncio.gather(*tasks) returns the tasks' results in the order of the tasks.
QaGatherReturn ==
  /\ qa_pc = "gather"
  /\ \A i \in 1..Len(qa_images) : qa_task[i] = "done"
  /\ quality_results' = [i \in 1..Len(qa_images) |-> qa_result[i]]
  /\ qa_pc' = "scored"
  /\ UNCHANGED <<qa_images, qa_task, qa_call, qa_result, qa_semaphore, qa_failing,
                 high_quality_images>>
  /\ UNCHANGED <<dd_vars, rp_vars, dt_vars, ft_vars, rq_vars>>

\* high_quality_images = [img for img, score in quality_results if score > 0.3]
FilterQuality ==
  /\ qa_pc = "scored"
  /\ LET kept == SelectSeq(quality_results, LAMBDA pair : AboveThreshold(pair.score))
     IN  high_quality_images' = [k \in 1..Len(kept) |-> kept[k].image]
  /\ qa_pc' = "filtered"
  /\ UNCHANGED <<qa_images, qa_task, qa_call, qa_result, qa_semaphore, qa_failing,
                 quality_results>>
  /\ UNCHANGED <<dd_vars, rp_vars, dt_vars, ft_vars, rq_vars>>

QualityIdle ==
  /\ qa_images = <<>>
  /\ qa_task = <<>>
  /\ qa_call = <<>>
  /\ qa_result = <<>>
  /\ qa_semaphore = quality_batch_size
  /\ qa_failing = {}
  /\ quality_results = <<>>
  /\ high_quality_images = <<>>
  /\ qa_pc = "idle"

\* ----------------------------------------------------------- ImageFetcher
\* A URL is the sequence of its characters.  What _download_image sees of the
\* server is one response per attempt: whether the transfer fails (timeout,
\* connection error, truncated body), the status code, whether the content
\* type starts with "image/", and the size of the body in bytes.
max_retries == 3
max_concurrent == 10
max_size == 10 * 1024 * 1024

U_http  == <<"h", "t", "t", "p", ":", "/", "/", "a">>
U_https == <<"h", "t", "t", "p", "s", ":", "/", "/", "b">>

\* URLs of a host that always serves the image, and of one that always
\* answers 404.
U_static_a == <<"h", "t", "t", "p", "s", ":", "/", "/", "s", "/", "a">>
U_static_b == <<"h", "t", "t", "p", "s", ":", "/", "/", "s", "/", "b">>
U_static_c == <<"h", "t", "t", "p", "s", ":", "/", "/", "s", "/", "c">>
U_gray     == <<"h", "t", "t", "p", "s", ":", "/", "/", "s", "/", "g">>
U_gone     == <<"h", "t", "t", "p", ":", "/", "/", "g">>

Response(transfer_error, http_status, is_image, size) ==
  [transfer_error |-> transfer_error, status |-> http_status,
   is_image |-> is_image, size |-> size]

Responses ==
  { Response(FALSE, 200, TRUE, 5000),
    Response(FALSE, 200, TRUE, max_size),
    Response(TRUE,  200, TRUE, 5000),
    Response(FALSE, 404, TRUE, 5000),
    Response(FALSE, 200, FALSE, 5000),
    Response(FALSE, 200, TRUE, max_size + 1),
    Response(FALSE, 200, TRUE, 0) }

\* The responses the host of a URL can give to an attempt.
Serves(url) ==
  IF url \in {U_static_a, U_static_b, U_static_c, U_gray}
  THEN {Response(FALSE, 200, TRUE, 5000)}
  ELSE IF url = U_gone THEN {Response(FALSE, 404, TRUE, 5000)}
  ELSE Responses

\* (url, bytes(image_data)): the bytes are the whole body.
ImageTuple(url, size) == [url |-> url, bytes |-> [size |-> size]]

\* The None a task returns for a URL it could not download.
NoDownload == ImageTuple(<<>>, -1)

\* A download that returns an empty body instead of raising.
_download_image_noemptycheck(url, response) ==
  IF response.transfer_error THEN [exc |-> TRUE, value |-> NoDownload]
  ELSE IF response.status # 200 THEN [exc |-> TRUE, value |-> NoDownload]
  ELSE IF ~response.is_image THEN [exc |-> TRUE, value |-> NoDownload]
  ELSE IF response.size > max_size THEN [exc |-> TRUE, value |-> NoDownload]
  ELSE [exc |-> FALSE, value |-> ImageTuple(url, response.size)]

\* ImageFetcher._download_image
_download_image(url, response) ==
  IF response.transfer_error THEN [exc |-> TRUE, value |-> NoDownload]
  ELSE IF response.status # 200 THEN [exc |-> TRUE, value |-> NoDownload]
  ELSE IF ~response.is_image THEN [exc |-> TRUE, value |-> NoDownload]
  ELSE IF response.size > max_size THEN [exc |-> TRUE, value |-> NoDownload]
  ELSE IF response.size = 0 THEN [exc |-> TRUE, value |-> NoDownload]
  ELSE [exc |-> FALSE, value |-> ImageTuple(url, response.size)]

UrlLists ==
  UNION { [1..n -> {U_http, U_https}] : n \in 0..MaxImages }

FetchInit ==
  /\ urls \in UrlLists
  /\ ft_task = [i \in 1..Len(urls) |-> "waiting"]
  /\ attempts = [i \in 1..Len(urls) |-> 0]
  /\ succeeded_at = [i \in 1..Len(urls) |-> 0]
  /\ ft_result = [i \in 1..Len(urls) |-> NoDownload]
  /\ ft_semaphore = max_concurrent
  /\ successful_downloads = <<>>
  /\ ft_pc = "gather"

\* A batch of more URLs than download slots: static URLs, some positions
\* taken by a URL whose every attempt fails.
FetchBatchInit ==
  /\ \E n \in {MaxUrls - 1, MaxUrls} :
       \E gone \in {{}, {1}, {1, 2}, {n}} :
          urls = [k \in 1..n |-> IF k \in gone THEN U_gone ELSE U_static_a]
  /\ ft_task = [i \in 1..Len(urls) |-> "waiting"]
  /\ attempts = [i \in 1..Len(urls) |-> 0]
  /\ succeeded_at = [i \in 1..Len(urls) |-> 0]
  /\ ft_result = [i \in 1..Len(urls) |-> NoDownload]
  /\ ft_semaphore = max_concurrent
  /\ successful_downloads = <<>>
  /\ ft_pc = "gather"

\* _fetch_single_image enters "async with semaphore" (fetch.py:94).
FtAcquire(i) ==
  /\ ft_pc = "gather"
  /\ ft_task[i] = "waiting"
  /\ \A j \in 1..(i - 1) : ft_task[j] # "waiting"
  /\ ft_semaphore > 0
  /\ ft_semaphore' = ft_semaphore - 1
  /\ ft_task' = [ft_task EXCEPT ![i] = "running"]
  /\ UNCHANGED <<urls, attempts, succeeded_at, ft_result, successful_downloads, ft_pc>>
  /\ UNCHANGED <<dd_vars, rp_vars, dt_vars, qa_vars, rq_vars>>

\* A gather whose kept results come out last URL first.
FtGatherReturn_reversed ==
  /\ ft_pc = "gather"
  /\ \A i \in 1..Len(urls) : ft_task[i] = "done"
  /\ successful_downloads' =
       SelectSeq([i \in 1..Len(urls) |-> ft_result[Len(urls) + 1 - i]],
                 LAMBDA result : result # NoDownload)
  /\ ft_pc' = "returned"
  /\ UNCHANGED <<urls, ft_task, attempts, succeeded_at, ft_result, ft_semaphore>>
  /\ UNCHANGED <<dd_vars, rp_vars, dt_vars, qa_vars, rq_vars>>

\* A retry loop that gives its slot back before it sleeps.
FtAttempt_releasebeforesleep(i) ==
  /\ ft_pc = "gather"
  /\ ft_task[i] = "running"
  /\ attempts[i] < max_retries
  /\ \E response \in Serves(urls[i]) :
       LET attempt == attempts[i]
           download == _download_image(urls[i], response)
       IN  /\ attempts' = [attempts EXCEPT ![i] = attempt + 1]
           /\ ft_semaphore' = ft_semaphore + 1
           /\ IF ~download.exc
              THEN /\ ft_result' = [ft_result EXCEPT ![i] = download.value]
                   /\ succeeded_at' = [succeeded_at EXCEPT ![i] = attempt + 1]
                   /\ ft_task' = [ft_task EXCEPT ![i] = "done"]
              ELSE IF attempt = max_retries - 1
              THEN /\ ft_result' = [ft_result EXCEPT ![i] = NoDownload]
                   /\ ft_task' = [ft_task EXCEPT ![i] = "done"]
                   /\ UNCHANGED succeeded_at
              ELSE /\ ft_task' = [ft_task EXCEPT ![i] = "waiting"]
                   /\ UNCHANGED <<ft_result, succeeded_at>>
  /\ UNCHANGED <<urls, successful_downloads, ft_pc>>
  /\ UNCHANGED <<dd_vars, rp_vars, dt_vars, qa_vars, rq_vars>>

\* One iteration of the retry loop of _fetch_single_image (fetch.py:95-106):
\* a download that returns ends the task with its tuple, the failure of the
\* last attempt ends it with None, any other failure sleeps and loops.
FtAttempt(i) ==
  /\ ft_pc = "gather"
  /\ ft_task[i] = "running"
  /\ attempts[i] < max_retries
  /\ \E response \in Serves(urls[i]) :
       LET attempt == attempts[i]
           download == _download_image(urls[i], response)
       IN  /\ attempts' = [attempts EXCEPT ![i] = attempt + 1]
           /\ IF ~download.exc
              THEN /\ ft_result' = [ft_result EXCEPT ![i] = download.value]
                   /\ succeeded_at' = [succeeded_at EXCEPT ![i] = attempt + 1]
                   /\ ft_task' = [ft_task EXCEPT ![i] = "done"]
                   /\ ft_semaphore' = ft_semaphore + 1
              ELSE IF attempt = max_retries - 1
              THEN /\ ft_result' = [ft_result EXCEPT ![i] = NoDownload]
                   /\ ft_task' = [ft_task EXCEPT ![i] = "done"]
                   /\ ft_semaphore' = ft_semaphore + 1
                   /\ UNCHANGED succeeded_at
              ELSE UNCHANGED <<ft_result, succeeded_at, ft_task, ft_semaphore>>
  /\ UNCHANGED <<urls, successful_downloads, ft_pc>>
  /\ UNCHANGED <<dd_vars, rp_vars, dt_vars, qa_vars, rq_vars>>

\* gather returns the tasks' results in URL order; _fetch_images_async keeps
\* those that are not None (fetch.py:62-79).
FtGatherReturn ==
  /\ ft_pc = "gather"
  /\ \A i \in 1..Len(urls) : ft_task[i] = "done"
  /\ successful_downloads' =
       SelectSeq([i \in 1..Len(urls) |-> ft_result[i]], LAMBDA result : result # NoDownload)
  /\ ft_pc' = "returned"
  /\ UNCHANGED <<urls, ft_task, attempts, succeeded_at, ft_result, ft_semaphore>>
  /\ UNCHANGED <<dd_vars, rp_vars, dt_vars, qa_vars, rq_vars>>

\* ---------------------------------------------------------- lambda_handler
\* The event's body is either text json.loads rejects (NotJson) or the parsed
\* object with its claim_id, loss_type and images; a claim id is the sequence
\* of its characters, images is a list of URLs, has_images tells whether the
\* object has the field at all.
max_images == 100
max_claim_id_len == 50

Body(is_json, claim_id, loss_type, has_images, image_urls) ==
  [is_json |-> is_json, claim_id |-> claim_id, loss_type |-> loss_type,
   has_images |-> has_images, images |-> image_urls]

NotJson == Body(FALSE, <<>>, "", FALSE, <<>>)

\* No request has been validated yet.
NoRequest == NotJson

U_ftp   == <<"f", "t", "p", ":", "/", "/", "c">>
U_upper == <<"H", "T", "T", "P", ":", "/", "/", "a">>
U_short == <<"h", "t", "t", "p", "s", ":", "/">>
U_empty == <<>>

Repeat(x, n) == [k \in 1..n |-> x]

ClaimIds == { Repeat("c", 8), <<>>, Repeat("c", max_claim_id_len),
              Repeat("c", max_claim_id_len + 1) }

LossTypes == {"wind", "hail"}

RequestImageLists ==
  UNION { [1..n -> {U_http, U_https, U_ftp, U_empty}] : n \in 0..MaxImages }
  \cup { <<U_upper>>, <<U_https, U_short>>,
         Repeat(U_https, max_images), Repeat(U_http, max_images + 1),
         Repeat(U_https, max_images - 1) \o <<U_ftp>>,
         Repeat(U_ftp, max_images + 1) }

Bodies ==
  {NotJson}
  \cup { Body(TRUE, c, l, TRUE, u) : c \in ClaimIds, l \in LossTypes, u \in RequestImageLists }
  \cup { Body(TRUE, c, l, FALSE, <<>>) : c \in ClaimIds, l \in LossTypes }

\* AggregateRequest.validate_claim_id: TRUE when it raises.
validate_claim_id(v) == Len(v) = 0 \/ Len(v) > max_claim_id_len

\* AggregateRequest.validate_loss_type, after the LossType enum: TRUE when it raises.
validate_loss_type(v) == v # "wind"

\* A validator without the upper limit.
validate_images_nolimit(v) == Len(v) = 0

\* AggregateRequest.validate_images: TRUE when it raises.
validate_images(v) == Len(v) = 0 \/ Len(v) > max_images

\* AggregateRequest.model_validate(body)
model_validate(b) ==
  IF ~b.has_images THEN [exc |-> TRUE, value |-> NoRequest]
  ELSE IF validate_claim_id(b.claim_id) \/ validate_loss_type(b.loss_type)
          \/ validate_images(b.images)
  THEN [exc |-> TRUE, value |-> NoRequest]
  ELSE [exc |-> FALSE, value |-> b]

\* str.startswith(prefix)
StartsWith(str, prefix) ==
  Len(str) >= Len(prefix) /\ SubSeq(str, 1, Len(prefix)) = prefix

\* schemas.validate_image_url
validate_image_url(url) ==
  IF Len(url) = 0 THEN FALSE
  ELSE StartsWith(url, <<"h", "t", "t", "p", ":", "/", "/">>)
       \/ StartsWith(url, <<"h", "t", "t", "p", "s", ":", "/", "/">>)

RequestInit ==
  /\ body \in Bodies
  /\ request = NoRequest
  /\ api_key_set \in BOOLEAN
  /\ rq_status = 0
  /\ fetch_input = <<>>
  /\ rq_pc = "received"

\* json.loads(event['body']) (app.py:43-48); a JSONDecodeError reaches the
\* outer except, which answers 500 (app.py:105-108).
ParseBody ==
  /\ rq_pc = "received"
  /\ IF ~body.is_json
     THEN rq_status' = 500 /\ rq_pc' = "returned"
     ELSE rq_status' = rq_status /\ rq_pc' = "parsed"
  /\ UNCHANGED <<body, request, api_key_set, fetch_input>>
  /\ UNCHANGED <<dd_vars, rp_vars, dt_vars, qa_vars, ft_vars>>

\* AggregateRequest.model_validate(body) and its 422 (app.py:52-56).
ValidateRequest ==
  /\ rq_pc = "parsed"
  /\ LET validated == model_validate(body)
     IN  IF validated.exc
         THEN rq_status' = 422 /\ rq_pc' = "returned" /\ request' = request
         ELSE rq_status' = rq_status /\ rq_pc' = "validated" /\ request' = validated.value
  /\ UNCHANGED <<body, api_key_set, fetch_input>>
  /\ UNCHANGED <<dd_vars, rp_vars, dt_vars, qa_vars, ft_vars>>

\* The URL check and its 422 (app.py:58-61).
ValidateUrls ==
  /\ rq_pc = "validated"
  /\ LET invalid_urls == SelectSeq(request.images, LAMBDA url : ~validate_image_url(url))
     IN  IF Len(invalid_urls) > 0
         THEN rq_status' = 422 /\ rq_pc' = "returned"
         ELSE rq_status' = rq_status /\ rq_pc' = "urls_ok"
  /\ UNCHANGED <<body, request, api_key_set, fetch_input>>
  /\ UNCHANGED <<dd_vars, rp_vars, dt_vars, qa_vars, ft_vars>>

\* The components are constructed (app.py:63-73); DamageDetector() raises
\* without GEMINI_API_KEY, which the outer except answers with 500.
InitComponents ==
  /\ rq_pc = "urls_ok"
  /\ IF api_key_set
     THEN rq_status' = rq_status /\ rq_pc' = "ready"
     ELSE rq_status' = 500 /\ rq_pc' = "returned"
  /\ UNCHANGED <<body, request, api_key_set, fetch_input>>
  /\ UNCHANGED <<dd_vars, rp_vars, dt_vars, qa_vars, ft_vars>>

\* process_images(images=request.images, ...) starts with
\* fetcher.fetch_images(images) (app.py:76-83, 132).
StartPipeline ==
  /\ rq_pc = "ready"
  /\ fetch_input' = request.images
  /\ rq_pc' = "fetching"
  /\ UNCHANGED <<body, request, api_key_set, rq_status>>
  /\ UNCHANGED <<dd_vars, rp_vars, dt_vars, qa_vars, ft_vars>>

DetectIdle ==
  /\ det_images = <<>>
  /\ task = <<>>
  /\ task_result = <<>>
  /\ semaphore = batch_size
  /\ call_failed = {}
  /\ literal_accepts_enum = TRUE

DedupIdle ==
  /\ images = <<>>
  /\ image_hashes = <<>>
  /\ clusters = <<>>
  /\ unique_images = <<>>
  /\ first_unique = <<>>
  /\ dd_run = 0
  /\ dd_pc = "idle"
  /\ cluster_info = NoClusterInfo

ReportIdle ==
  /\ det_results = <<>>
  /\ proc_results = <<>>
  /\ report = NoReport
  /\ status = 0
  /\ hash_order = AllAreas
  /\ first_report = NoReport
  /\ processing_result = NoProcessingResult
  /\ source_images = NoSourceImages
  /\ rp_run = 0
  /\ rp_pc = "idle"

FetchIdle ==
  /\ urls = <<>>
  /\ ft_task = <<>>
  /\ attempts = <<>>
  /\ succeeded_at = <<>>
  /\ ft_result = <<>>
  /\ ft_semaphore = max_concurrent
  /\ successful_downloads = <<>>
  /\ ft_pc = "idle"

RequestIdle ==
  /\ body = NotJson
  /\ request = NoRequest
  /\ api_key_set = TRUE
  /\ rq_status = 0
  /\ fetch_input = <<>>
  /\ rq_pc = "idle"

NextDedup == Deduplicate \/ DeduplicateAgain \/ GetClusterInfo

InitDedup == DedupInit /\ ReportIdle /\ DetectIdle /\ QualityIdle /\ FetchIdle /\ RequestIdle

SpecDedup == InitDedup /\ [][NextDedup]_vars

NextReport == FilterErrors \/ GenerateResponse \/ InvokeAgain

InitReport == ReportInit /\ DedupIdle /\ DetectIdle /\ QualityIdle /\ FetchIdle /\ RequestIdle

SpecReport == InitReport /\ [][NextReport]_vars

NextDetect ==
  \/ \E i \in 1..Len(det_images) : Acquire(i)
  \/ \E i \in 1..Len(det_images) : AnalyzeOne(i)
  \/ GatherReturn
  \/ GatherRaise
  \/ FilterErrors
  \/ GenerateResponse

InitDetect == DetectInit /\ DedupIdle /\ QualityIdle /\ FetchIdle /\ RequestIdle

SpecDetect == InitDetect /\ [][NextDetect]_vars

NextQuality ==
  \/ \E i \in 1..Len(qa_images) : QaAcquire(i)
  \/ \E i \in 1..Len(qa_images) : QaAnalyzeOne(i)
  \/ QaGatherReturn
  \/ FilterQuality

InitQuality == QualityInit /\ DedupIdle /\ ReportIdle /\ DetectIdle /\ FetchIdle /\ RequestIdle

SpecQuality == InitQuality /\ [][NextQuality]_vars

NextFetch ==
  \/ \E i \in 1..Len(urls) : FtAcquire(i)
  \/ \E i \in 1..Len(urls) : FtAttempt(i)
  \/ FtGatherReturn

InitFetch == FetchInit /\ DedupIdle /\ ReportIdle /\ DetectIdle /\ QualityIdle /\ RequestIdle

SpecFetch == InitFetch /\ [][NextFetch]_vars

NextRequest ==
  ParseBody \/ ValidateRequest \/ ValidateUrls \/ InitComponents \/ StartPipeline

InitRequest == RequestInit /\ DedupIdle /\ ReportIdle /\ DetectIdle /\ QualityIdle /\ FetchIdle

SpecRequest == InitRequest /\ [][NextRequest]_vars

\* The event loop runs a task that can run, and an executor call or a
\* download attempt (bounded by the 30 s timeout) terminates: a step that
\* stays possible is eventually taken.
InitQualityFair ==
  QualityBatchInit /\ DedupIdle /\ ReportIdle /\ DetectIdle /\ FetchIdle /\ RequestIdle

SpecQualityFair == InitQualityFair /\ [][NextQuality]_vars /\ WF_vars(NextQuality)

InitFetchFair ==
  FetchBatchInit /\ DedupIdle /\ ReportIdle /\ DetectIdle /\ QualityIdle /\ RequestIdle

SpecFetchFair == InitFetchFair /\ [][NextFetch]_vars /\ WF_vars(NextFetch)

\* ------------------------------------------------- Deduplicator: properties
ClusterInfoReturned == cluster_info # NoClusterInfo

\* C11: for every input list, empty and single-image lists included,
\* get_cluster_info reports the input's length as total_images, a number of
\* clusters that is at most total_images, and duplicates_removed equal to
\* total_images - clusters, which is therefore never negative.
C11_ClusterInfoArithmetic ==
  ClusterInfoReturned =>
    /\ cluster_info.total_images = Len(images)
    /\ cluster_info.clusters >= 0
    /\ cluster_info.clusters <= cluster_info.total_images
    /\ cluster_info.duplicates_removed = cluster_info.total_images - cluster_info.clusters
    /\ cluster_info.duplicates_removed >= 0

\* An input of several images, one of them a duplicate, was reported.
C11_Witness ==
  /\ ClusterInfoReturned
  /\ Len(images) > 1
  /\ cluster_info.duplicates_removed > 0
  /\ cluster_info.clusters > 0

DedupDone == dd_pc = "done" /\ Len(images) > 1

\* Positions <<c, m>> of the cluster members that carry the path p.
MemberSlots(p) ==
  { cm \in UNION { {<<c, m>> : m \in 1..Len(clusters[c])} : c \in 1..Len(clusters) } :
      clusters[cm[1]][cm[2]].path = p }

SameCluster(p1, p2) ==
  \E c \in 1..Len(clusters) :
     /\ \E m \in 1..Len(clusters[c]) : clusters[c][m].path = p1
     /\ \E m \in 1..Len(clusters[c]) : clusters[c][m].path = p2

HashOf(img) == _calculate_perceptual_hash(img.bytes).value
QualityOf(img) == _calculate_quality_score(img.bytes).value
Distance(a, b) == Hamming(HashOf(a), HashOf(b), HashBits)
PosOf(p) == CHOOSE k \in 1..Len(images) : images[k].path = p

\* C1: once deduplicate has clustered a list of two or more images, every
\* input image is a member of exactly one cluster (one slot of one cluster).
\* A list of at most one image is returned as it is, no cluster being built.
C1_ClustersPartitionInput ==
  /\ DedupDone => \A k \in 1..Len(images) : Cardinality(MemberSlots(images[k].path)) = 1
  /\ (dd_pc = "done" /\ Len(images) <= 1) => (clusters = <<>> /\ unique_images = images)

C1_Witness ==
  /\ DedupDone
  /\ Len(images) = 3
  /\ Len(clusters) = 2
  /\ \E c \in 1..2 : Len(clusters[c]) = 2

\* C2: running deduplicate on its own output returns the same set of images.
C2_DedupIdempotent ==
  (dd_pc = "done" /\ dd_run = 2) => Range(unique_images) = Range(first_unique)

\* C7: deduplicate returns one image per cluster, a member of that cluster
\* whose quality score is the largest of the cluster, and the earliest such
\* member in input order.
C7_RepresentativeIsFirstBest ==
  DedupDone =>
    /\ Len(unique_images) = Len(clusters)
    /\ \A c \in 1..Len(clusters) :
         /\ \E m \in 1..Len(clusters[c]) : clusters[c][m].path = unique_images[c].path
         /\ \A m \in 1..Len(clusters[c]) :
              LET member == clusters[c][m]
                  rep    == unique_images[c]
              IN  /\ QualityOf(member) <= QualityOf(rep)
                  /\ QualityOf(member) = QualityOf(rep)
                       => PosOf(rep.path) <= PosOf(member.path)

C7_Witness ==
  /\ DedupDone
  /\ \E c \in 1..Len(clusters) :
       /\ Len(clusters[c]) = 3
       /\ QualityOf(clusters[c][1]) < QualityOf(clusters[c][2])
       /\ QualityOf(clusters[c][2]) = QualityOf(clusters[c][3])
       /\ unique_images[c].path = clusters[c][2].path

\* C8: two input images with identical perceptual hashes are in the same
\* cluster, wherever they stand in the list.
C8_IdenticalHashesShareCluster ==
  DedupDone =>
    \A a, b \in 1..Len(images) :
       HashOf(images[a]) = HashOf(images[b]) => SameCluster(images[a].path, images[b].path)

C8_Witness ==
  /\ DedupDone
  /\ Len(images) = 3
  /\ HashOf(images[1]) = HashOf(images[3])
  /\ Distance(images[1], images[2]) > 6
  /\ SameCluster(images[1].path, images[3].path)
  /\ ~SameCluster(images[1].path, images[2].path)

\* C9: any two members of one cluster have hash similarity >= 0.9.
C9_MembersMutuallySimilar ==
  DedupDone =>
    \A c \in 1..Len(clusters) : \A m, n \in 1..Len(clusters[c]) :
       10 * (HashBits - Hamming(clusters[c][m].hash, clusters[c][n].hash, HashBits))
         >= 9 * HashBits

\* C9 (amended): every member of a cluster has similarity >= 0.9 to the
\* cluster's seed (at most 6 differing bits), hence any two members differ
\* in at most 12 of the 64 bits.
C9_MembersSimilarToSeed ==
  DedupDone =>
    \A c \in 1..Len(clusters) : \A m, n \in 1..Len(clusters[c]) :
       /\ Hamming(clusters[c][1].hash, clusters[c][m].hash, HashBits) <= 6
       /\ Hamming(clusters[c][m].hash, clusters[c][n].hash, HashBits) <= 12

C9_Witness ==
  /\ DedupDone
  /\ \E c \in 1..Len(clusters) :
       /\ Len(clusters[c]) = 3
       /\ Hamming(clusters[c][2].hash, clusters[c][3].hash, HashBits) = 12

\* C10: an image whose perceptual hash cannot be computed is a member of no
\* cluster and is not returned by deduplicate.
C10_FailedHashExcluded ==
  DedupDone =>
    \A k \in 1..Len(images) :
       ~images[k].bytes.decodable =>
          /\ MemberSlots(images[k].path) = {}
          /\ \A u \in 1..Len(unique_images) : unique_images[u].path # images[k].path

\* The number of positions in which two hashes differ.
DiffBits(hash1, hash2) == Cardinality({b \in 1..HashBits : hash1[b] # hash2[b]})

\* similarity >= 0.9 of two hashes, as 1 - DiffBits/64 >= 9/10.
Similar(hash1, hash2) == 10 * (HashBits - DiffBits(hash1, hash2)) >= 9 * HashBits

Seed(c) == clusters[c][1]

\* C21: clustering is seed-based in input order: the seeds stand in input
\* order, a seed is similar (>= 0.9) to no earlier seed, and every other
\* member comes after its seed, is similar to its seed and to no earlier
\* seed; similarity to a non-seed member plays no part.
C21_SeedBasedInInputOrder ==
  DedupDone =>
    \A c \in 1..Len(clusters) :
       /\ \A d \in 1..(c - 1) :
            /\ PosOf(Seed(d).path) < PosOf(Seed(c).path)
            /\ ~Similar(Seed(d).hash, Seed(c).hash)
       /\ \A m \in 2..Len(clusters[c]) :
            /\ PosOf(Seed(c).path) < PosOf(clusters[c][m].path)
            /\ Similar(Seed(c).hash, clusters[c][m].hash)
            /\ \A d \in 1..(c - 1) : ~Similar(Seed(d).hash, clusters[c][m].hash)

\* The third image is similar to the second, a non-seed member of the first
\* image's cluster, but not to the first, and opens its own cluster.
C21_Witness ==
  /\ DedupDone
  /\ Len(images) = 3
  /\ Len(clusters) = 2
  /\ Len(clusters[1]) = 2 /\ clusters[1][2].path = images[2].path
  /\ Similar(HashOf(images[2]), HashOf(images[3]))
  /\ ~Similar(HashOf(images[1]), HashOf(images[3]))
  /\ Seed(2).path = images[3].path

\* C22: every non-seed member of a cluster differs from the cluster's seed
\* in at most 6 of the 64 hash bits; an image 7 bits from a seed is not in
\* that seed's cluster, and an image 6 bits from a seed and after it is in
\* that seed's cluster or in an earlier one.
C22_MergedWithinSixBits ==
  DedupDone =>
    \A c \in 1..Len(clusters) :
       /\ \A m \in 2..Len(clusters[c]) : DiffBits(Seed(c).hash, clusters[c][m].hash) <= 6
       /\ \A k \in 1..Len(images) :
            (PosOf(Seed(c).path) < k /\ DiffBits(Seed(c).hash, HashOf(images[k])) = 6)
              => \E d \in 1..c : \E m \in 2..Len(clusters[d]) :
                    clusters[d][m].path = images[k].path

\* One seed with an image 6 bits away, merged, and an image 7 bits away, not merged.
C22_Witness ==
  /\ DedupDone
  /\ Len(clusters) = 2
  /\ \E m \in 2..Len(clusters[1]) : DiffBits(Seed(1).hash, clusters[1][m].hash) = 6
  /\ DiffBits(Seed(1).hash, Seed(2).hash) = 7

\* C26: the seeds of two distinct clusters have similarity below 0.9, i.e.
\* differ in more than 6 of the 64 bits.
C26_SeedsPairwiseDissimilar ==
  DedupDone =>
    \A c, d \in 1..Len(clusters) :
       c # d => /\ ~Similar(Seed(c).hash, Seed(d).hash)
                /\ DiffBits(Seed(c).hash, Seed(d).hash) > 6

\* Two clusters whose seeds are 12 bits apart, the first with a merged member
\* that came after the second seed.
C26_Witness ==
  /\ DedupDone
  /\ Len(images) = 3
  /\ Len(clusters) = 2
  /\ DiffBits(Seed(1).hash, Seed(2).hash) = 12
  /\ Len(clusters[1]) = 2
  /\ Seed(2).path = images[2].path

\* ---------------------------------------------------- handler: properties
Responded == rp_pc = "returned" /\ status = 200

InArea(results, area) == SelectSeq(results, LAMBDA r : r.area = area)

\* C3: an area aggregate is confirmed exactly when the area has at least two
\* damaged classifications of which at least two have severity >= 2; one
\* damaged classification alone never confirms, whatever its severity.
C3_ConfirmedIffTwoModerate ==
  Responded =>
    \A k \in 1..Len(report.areas) :
       LET a == report.areas[k]
           damaged == SelectSeq(proc_results,
                                LAMBDA r : r.area = a.area /\ r.has_damage)
           high == SelectSeq(damaged, LAMBDA r : r.severity >= 2)
       IN  a.damage_confirmed <=> (Len(damaged) >= 2 /\ Len(high) >= 2)

C3_Witness ==
  /\ Responded
  /\ \E k \in 1..Len(report.areas) :
        report.areas[k].damage_confirmed /\ report.areas[k].count = 2
  /\ \E k \in 1..Len(report.areas) :
        /\ ~report.areas[k].damage_confirmed
        /\ report.areas[k].count = 1
        /\ report.areas[k].avg_severity = 40

IsErrored(r) == r.error # None /\ r.error # ""

C6_ReportDeterministic ==
  (Responded /\ rp_run = 2) => report = first_report

\* C12: the aggregate list has exactly one aggregate for each non-unknown area
\* with at least one classification in the input (also when none of them
\* shows damage), none for the unknown area and none for an area without
\* classifications.
C12_OneAggregatePerPresentArea ==
  Responded =>
    /\ \A k \in 1..Len(report.areas) : report.areas[k].area \in Range(AllAreas)
    /\ \A area \in Range(AllAreas) :
         Cardinality({k \in 1..Len(report.areas) : report.areas[k].area = area})
           = IF Len(InArea(proc_results, area)) > 0 THEN 1 ELSE 0

\* Siding has only an undamaged classification and still has its aggregate;
\* an unknown classification is in the input; roof has no classification.
C12_Witness ==
  /\ Responded
  /\ Len(InArea(proc_results, UNKNOWN)) > 0
  /\ Len(InArea(proc_results, "roof")) = 0
  /\ Len(InArea(proc_results, "siding")) > 0
  /\ \A k \in 1..Len(proc_results) :
        proc_results[k].area = "siding" => ~proc_results[k].has_damage
  /\ \E k \in 1..Len(report.areas) :
        report.areas[k].area = "siding" /\ report.areas[k].count = 0

C14_ScoresInRange ==
  Responded =>
    /\ report.overall_damage_severity \in 0..40
    /\ \A k \in 1..Len(report.areas) : report.areas[k].avg_severity \in 0..40
    /\ report.confidence \in 0..100

\* Several classifications, the top of the severity range is reached.
C14_Witness ==
  /\ Responded
  /\ Len(proc_results) >= 2
  /\ \A k \in 1..Len(proc_results) :
        /\ proc_results[k].severity \in 0..4
        /\ proc_results[k].quality_score \in 0..ScoreScale
        /\ proc_results[k].confidence \in 0..ScoreScale
  /\ report.overall_damage_severity = 40
  /\ \E k \in 1..Len(report.areas) :
        report.areas[k].avg_severity = 40 /\ report.areas[k].count >= 2
  /\ report.confidence > 0

\* C15: with zero classifications the gap list has seven entries, "No <area>
\* photos" for each of the six areas and then the coverage catch-all, and a
\* second run on the same input lists them in the same order as the first.
C15_EmptyGapsFixedOrder ==
  (Responded /\ rp_run = 2 /\ Len(proc_results) = 0) =>
    /\ Len(report.data_gaps) = 7
    /\ {report.data_gaps[k] : k \in 1..6}
         = {GapRecord("No photos", area, 0) : area \in Range(AllAreas)}
    /\ report.data_gaps[7] = GapRecord("Limited area coverage - need more photos", "", 0)
    /\ report.data_gaps = first_report.data_gaps

\* The areas of the gaps of one kind among positions lo..hi of the gap list.
GapAreas(lo, hi) == {report.data_gaps[k].area : k \in lo..hi}

GapsAre(lo, hi, text) == \A k \in lo..hi : report.data_gaps[k].text = text

PresentAreas == {report.areas[k].area : k \in 1..Len(report.areas)}

InsufficientAreas ==
  {report.areas[k].area : k \in {j \in 1..Len(report.areas) : report.areas[j].count < 2}}

UnconfirmedAreas ==
  {report.areas[k].area :
     k \in {j \in 1..Len(report.areas) :
              ~report.areas[j].damage_confirmed /\ report.areas[j].count > 0}}

\* C23: the gap list consists of four consecutive groups and nothing else:
\* a "No <area> photos" gap for each of the six areas without aggregate, an
\* "Insufficient" gap for each aggregate with count < 2, an "Unconfirmed" gap
\* for each unconfirmed aggregate with count > 0, and the coverage catch-all
\* when fewer than 2 areas have an aggregate.
C23_GapGroupsInOrder ==
  Responded =>
    LET n1 == Cardinality(Range(AllAreas) \ PresentAreas)
        n2 == Cardinality(InsufficientAreas)
        n3 == Cardinality(UnconfirmedAreas)
        n4 == IF Len(report.areas) < 2 THEN 1 ELSE 0
    IN  /\ Len(report.data_gaps) = n1 + n2 + n3 + n4
        /\ GapsAre(1, n1, "No photos")
        /\ GapAreas(1, n1) = Range(AllAreas) \ PresentAreas
        /\ GapsAre(n1 + 1, n1 + n2, "Insufficient photos")
        /\ GapAreas(n1 + 1, n1 + n2) = InsufficientAreas
        /\ \A k \in (n1 + 1)..(n1 + n2) :
             \E j \in 1..Len(report.areas) :
                /\ report.areas[j].area = report.data_gaps[k].area
                /\ report.areas[j].count = report.data_gaps[k].count
        /\ GapsAre(n1 + n2 + 1, n1 + n2 + n3, "Unconfirmed damage (severity too low)")
        /\ GapAreas(n1 + n2 + 1, n1 + n2 + n3) = UnconfirmedAreas
        /\ n4 = 1 => report.data_gaps[n1 + n2 + n3 + 1]
                        = GapRecord("Limited area coverage - need more photos", "", 0)

\* All four groups are present: five missing areas, one aggregate with a
\* single damaged photo that is both insufficient and unconfirmed.
C23_Witness ==
  /\ Responded
  /\ Len(report.areas) = 1
  /\ report.areas[1].count = 1
  /\ Len(report.data_gaps) = 8
  /\ report.data_gaps[6].text = "Insufficient photos"
  /\ report.data_gaps[7].text = "Unconfirmed damage (severity too low)"
  /\ report.data_gaps[8].text = "Limited area coverage - need more photos"

\* The classifications with has_damage = true, pooled over all areas.
PooledDamaged == SelectSeq(proc_results, HasDamage)

\* C24: the overall severity is the quality-weighted mean of severity over
\* all damaged classifications of the claim pooled together, the plain mean
\* when their total weight is 0, rounded to one decimal, and 0.0 when there
\* is no damaged classification; it is not the mean of the areas' averages.
C24_OverallSeverityPooled ==
  Responded =>
    LET n == Len(PooledDamaged)
        weight == SumSeq([k \in 1..n |-> PooledDamaged[k].quality_score], n)
        weighted == SumSeq([k \in 1..n |-> PooledDamaged[k].severity
                                            * PooledDamaged[k].quality_score], n)
        plain == SumSeq([k \in 1..n |-> PooledDamaged[k].severity], n)
    IN  report.overall_damage_severity
          = IF n = 0 THEN 0
            ELSE IF weight = 0 THEN RoundHalfEven(10 * plain, n)
            ELSE RoundHalfEven(10 * weighted, weight)

\* Two areas with damage whose averages' mean is not the overall severity.
C24_Witness ==
  /\ Responded
  /\ Len(report.areas) = 2
  /\ \A k \in 1..2 : report.areas[k].count > 0
  /\ 2 * report.overall_damage_severity + 2
       < report.areas[1].avg_severity + report.areas[2].avg_severity

\* -------------------------------------------- QualityAnalyzer: properties
InUnitInterval(score) == score.den > 0 /\ 0 <= score.num /\ score.num <= score.den

\* C16: analyze_single_image never raises, its score is in [0,1], and bytes
\* that do not decode to an image (imdecode returns None or raises) score
\* exactly 0.0.
C16_SingleImageScoreTotal ==
  \A i \in 1..Len(qa_images) :
     (qa_task[i] = "done" /\ i \notin qa_failing) =>
        /\ ~qa_call[i].exc
        /\ InUnitInterval(qa_call[i].value)
        /\ qa_images[i].bytes.decode # "image" => qa_call[i].value.num = 0

\* Scored in one batch: bytes imdecode rejects, bytes imdecode raises on, and
\* an image with a score strictly between 0 and 1.
C16_Witness ==
  /\ \E i \in 1..Len(qa_images) :
        /\ qa_task[i] = "done" /\ i \notin qa_failing
        /\ qa_images[i].bytes.decode = "none" /\ qa_call[i].value.num = 0
  /\ \E i \in 1..Len(qa_images) :
        /\ qa_task[i] = "done" /\ i \notin qa_failing
        /\ qa_images[i].bytes.decode = "raises" /\ qa_call[i].value.num = 0
  /\ \E i \in 1..Len(qa_images) :
        /\ qa_task[i] = "done" /\ i \notin qa_failing
        /\ qa_images[i].bytes.decode = "image"
        /\ 0 < qa_call[i].value.num /\ qa_call[i].value.num < qa_call[i].value.den

BatchReturned == qa_pc \in {"scored", "filtered"}

\* C17: whatever the order in which the scoring tasks finish and whichever
\* images' scoring fails, the batch is never stuck and returns one pair per
\* input image, in input order, each image with the score of its own bytes;
\* a failed image gets a score below the acceptance threshold and the other
\* images' scores are what they are without the failure.
C17_BatchIsolatesFailures ==
  /\ qa_pc = "gather" =>
        \/ \A i \in 1..Len(qa_images) : qa_task[i] = "done"
        \/ \E i \in 1..Len(qa_images) : qa_task[i] = "running"
        \/ qa_semaphore > 0
  /\ BatchReturned =>
        /\ Len(quality_results) = Len(qa_images)
        /\ \A i \in 1..Len(qa_images) :
             /\ quality_results[i].image = qa_images[i]
             /\ i \notin qa_failing =>
                   quality_results[i].score
                     = quality_analyze_single_image(qa_images[i].bytes).value
             /\ i \in qa_failing => ~is_acceptable_quality(quality_results[i].score)
             /\ qa_images[i].bytes.decode # "image" =>
                   ~is_acceptable_quality(quality_results[i].score)

\* A batch of three returned: the first image's scoring failed, the others
\* were scored, one of them acceptably.
C17_Witness ==
  /\ BatchReturned
  /\ Len(qa_images) = 3
  /\ qa_failing = {1}
  /\ \E i \in 2..3 : is_acceptable_quality(quality_results[i].score)
  /\ \E i \in 2..3 : qa_images[i].bytes.decode = "none"

\* C18: an image is kept for deduplication exactly when is_acceptable_quality
\* holds of its score, i.e. it is dropped exactly when the score is below 0.3;
\* in particular an image scoring exactly 0.3 is kept.
C18_FilterAgreesWithAcceptable ==
  qa_pc = "filtered" =>
    \A i \in 1..Len(qa_images) :
       (\E k \in 1..Len(high_quality_images) : high_quality_images[k] = qa_images[i])
         <=> is_acceptable_quality(quality_results[i].score)

\* ----------------------------------------------- ImageFetcher: properties
\* The positions of the URLs one of whose attempts succeeded, in URL order.
SucceededPositions ==
  SelectSeq([i \in 1..Len(urls) |-> i], LAMBDA i : succeeded_at[i] # 0)

\* C19: each URL is attempted at most 3 times and never again after its
\* first success; a URL whose 3 attempts failed ends with no result; the
\* returned list has, in URL order, exactly one entry for each URL one of
\* whose attempts succeeded, holding that URL and a whole, non-empty body of
\* at most max_size bytes, whatever happened to the other URLs.
C19_RetryBudgetAndOmission ==
  /\ \A i \in 1..Len(urls) :
       /\ attempts[i] <= 3
       /\ succeeded_at[i] \in {0, attempts[i]}
       /\ (succeeded_at[i] # 0) <=> (ft_result[i] # NoDownload)
       /\ succeeded_at[i] # 0 => ft_task[i] = "done"
       /\ (ft_task[i] = "done" /\ succeeded_at[i] = 0) => attempts[i] = 3
       /\ ft_task[i] = "running" => attempts[i] < 3
  /\ ft_pc = "returned" =>
       /\ Len(successful_downloads) = Len(SucceededPositions)
       /\ \A k \in 1..Len(successful_downloads) :
            /\ successful_downloads[k] = ft_result[SucceededPositions[k]]
            /\ successful_downloads[k].url = urls[SucceededPositions[k]]
            /\ successful_downloads[k].bytes.size \in 1..max_size

\* Returned: one URL failed three times and is omitted, another succeeded at
\* its third attempt, another at its first.
C19_Witness ==
  /\ ft_pc = "returned"
  /\ Len(urls) = 3
  /\ \E i \in 1..3 : attempts[i] = 3 /\ succeeded_at[i] = 0
  /\ \E i \in 1..3 : succeeded_at[i] = 3
  /\ \E i \in 1..3 : succeeded_at[i] = 1
  /\ Len(successful_downloads) = 2

\* --------------------------------------------- lambda_handler: properties
HasHttpScheme(url) ==
  \/ Len(url) >= 7 /\ [k \in 1..7 |-> url[k]] = <<"h", "t", "t", "p", ":", "/", "/">>
  \/ Len(url) >= 8 /\ [k \in 1..8 |-> url[k]] = <<"h", "t", "t", "p", "s", ":", "/", "/">>

\* The body carries an image list that is empty, longer than 100, or has a
\* URL that does not start with http:// or https://.
BadImageList ==
  /\ body.is_json
  /\ body.has_images
  /\ \/ Len(body.images) = 0
     \/ Len(body.images) > 100
     \/ \E k \in 1..Len(body.images) : ~HasHttpScheme(body.images[k])

\* C20: a request whose image list is empty, has more than 100 URLs or has a
\* URL not starting with http:// or https:// is answered 422 and never
\* reaches the construction of the components or the fetcher; hence the
\* list handed to the pipeline never has more than 100 URLs.
C20_InvalidImageListRejected ==
  /\ BadImageList =>
       /\ rq_pc \in {"received", "parsed", "validated", "returned"}
       /\ rq_pc = "returned" => rq_status = 422
       /\ fetch_input = <<>>
  /\ rq_pc = "fetching" => Len(fetch_input) \in 1..100

\* 101 well-formed URLs in an otherwise valid request were answered 422.
C20_Witness ==
  /\ rq_pc = "returned"
  /\ rq_status = 422
  /\ BadImageList
  /\ Len(body.images) = 101
  /\ \A k \in 1..Len(body.images) : HasHttpScheme(body.images[k])
  /\ Len(body.claim_id) \in 1..50
  /\ body.loss_type = "wind"
  /\ api_key_set

\* --------------------------------------------------- detector: properties
\* C5: when the detector call fails for an image of the batch, the handler
\* still answers 200, the detector stage has a result for every image, the
\* failed image's result carries an error and is excluded from aggregation.
C5_PartialFailureTolerated ==
  (rp_pc = "returned" /\ call_failed # {}) =>
    /\ status = 200
    /\ Len(det_results) = Len(det_images)
    /\ \A i \in call_failed :
         /\ Truthy(det_results[i].error)
         /\ \A k \in 1..Len(proc_results) : proc_results[k].image_path # det_images[i]

\* The plain mean of severity, in tenths, over a list of classifications.
PlainMean(damage_results) ==
  IF Len(damage_results) = 0 THEN 0
  ELSE RoundHalfEven(10 * SumField(damage_results, "severity"), Len(damage_results))

DamagedIn(area) == SelectSeq(proc_results, LAMBDA r : r.has_damage /\ r.area = area)

QualityView(url) ==
  IF url = U_gray
  THEN [decode |-> "image", width |-> 100, height |-> 100, laplacian_var |-> 0,
        avg_brightness |-> 128, contrast |-> 0, raises |-> {}]
  ELSE [decode |-> "image", width |-> 1024, height |-> 1024, laplacian_var |-> 500,
        avg_brightness |-> 128, contrast |-> 60, raises |-> {}]

DedupView(url) ==
  IF url = U_static_a
  THEN [decodable |-> TRUE, width |-> 1920, height |-> 1080, luma |-> Luma({}, 0, 90)]
  ELSE IF url = U_static_b
  THEN [decodable |-> TRUE, width |-> 1920, height |-> 1080, luma |-> Luma(1..6, 200, 50)]
  ELSE IF url = U_static_c
  THEN [decodable |-> TRUE, width |-> 640, height |-> 480, luma |-> Luma(7..12, 220, 40)]
  ELSE [decodable |-> TRUE, width |-> 640, height |-> 480, luma |-> Luma({}, 0, 128)]

ChainUrls == {U_static_a, U_static_b, U_static_c, U_gray, U_gone}

\* Lists of distinct URLs.
ChainUrlLists ==
  UNION { {u \in [1..n -> ChainUrls] : \A i, j \in 1..n : i # j => u[i] # u[j]}
          : n \in 1..MaxChain }

\* lambda_handler has validated the request and built the components.
ChainInit ==
  /\ \E u \in ChainUrlLists : body = Body(TRUE, Repeat("c", 8), "wind", TRUE, u)
  /\ request = body
  /\ api_key_set = TRUE
  /\ rq_status = 0
  /\ fetch_input = <<>>
  /\ rq_pc = "ready"
  /\ det_images = <<>>
  /\ task = <<>>
  /\ task_result = <<>>
  /\ semaphore = batch_size
  /\ call_failed = {}
  /\ literal_accepts_enum \in BOOLEAN
  /\ det_results = <<>>
  /\ proc_results = <<>>
  /\ report = NoReport
  /\ status = 0
  /\ hash_order \in HashOrders
  /\ first_report = NoReport
  /\ processing_result = NoProcessingResult
  /\ source_images = NoSourceImages
  /\ rp_run = 0
  /\ rp_pc = "idle"

\* fetcher.fetch_images(images) creates the semaphore and one task per URL
\* (app.py:132; fetch.py:52-59).
FetchImages ==
  /\ rq_pc = "fetching"
  /\ ft_pc = "idle"
  /\ urls' = fetch_input
  /\ ft_task' = [i \in 1..Len(fetch_input) |-> "waiting"]
  /\ attempts' = [i \in 1..Len(fetch_input) |-> 0]
  /\ succeeded_at' = [i \in 1..Len(fetch_input) |-> 0]
  /\ ft_result' = [i \in 1..Len(fetch_input) |-> NoDownload]
  /\ ft_pc' = "gather"
  /\ UNCHANGED <<ft_semaphore, successful_downloads>>
  /\ UNCHANGED <<dd_vars, rp_vars, dt_vars, qa_vars, rq_vars>>

\* quality_analyzer.analyze_batch(downloaded_images) creates the semaphore
\* and one task per downloaded image (app.py:135; quality.py:44, 59); the
\* executor call of the first image may raise.
AnalyzeBatch ==
  /\ ft_pc = "returned"
  /\ qa_pc = "idle"
  /\ qa_images' = [k \in 1..Len(successful_downloads) |->
                     [path |-> successful_downloads[k].url,
                      bytes |-> QualityView(successful_downloads[k].url)]]
  /\ qa_task' = [i \in 1..Len(successful_downloads) |-> "waiting"]
  /\ qa_call' = [i \in 1..Len(successful_downloads) |-> NotCalled]
  /\ qa_result' = [i \in 1..Len(successful_downloads) |-> NoPair(qa_images'[i])]
  /\ qa_failing' \in {{}, {1} \cap (1..Len(successful_downloads))}
  /\ qa_pc' = "gather"
  /\ UNCHANGED <<qa_semaphore, quality_results, high_quality_images>>
  /\ UNCHANGED <<dd_vars, rp_vars, dt_vars, ft_vars, rq_vars>>

\* deduplicator.deduplicate(high_quality_images) is called (app.py:139).
CallDeduplicate ==
  /\ qa_pc = "filtered"
  /\ dd_pc = "idle"
  /\ images' = [k \in 1..Len(high_quality_images) |->
                  [path |-> high_quality_images[k].path,
                   bytes |-> DedupView(high_quality_images[k].path)]]
  /\ dd_run' = 1
  /\ dd_pc' = "call"
  /\ UNCHANGED <<image_hashes, clusters, unique_images, first_unique, cluster_info>>
  /\ UNCHANGED <<rp_vars, dt_vars, ext_vars>>

\* damage_detector.analyze_batch(unique_images) creates the semaphore and one
\* task per image (app.py:142; damage_detector_gemini.py:58, 84).
DetectBatch ==
  /\ dd_pc = "done"
  /\ rp_pc = "idle"
  /\ det_images' = [k \in 1..Len(unique_images) |-> unique_images[k].path]
  /\ task' = [k \in 1..Len(unique_images) |-> "waiting"]
  /\ task_result' = [k \in 1..Len(unique_images) |-> None]
  /\ rp_run' = 1
  /\ rp_pc' = "gather"
  /\ UNCHANGED <<semaphore, call_failed, literal_accepts_enum>>
  /\ UNCHANGED <<det_results, proc_results, report, status, hash_order, first_report,
                 processing_result, source_images>>
  /\ UNCHANGED <<dd_vars, ext_vars>>

NextChain ==
  \/ StartPipeline
  \/ FetchImages
  \/ \E i \in 1..Len(urls) : FtAcquire(i)
  \/ \E i \in 1..Len(urls) : FtAttempt(i)
  \/ FtGatherReturn
  \/ AnalyzeBatch
  \/ \E i \in 1..Len(qa_images) : QaAcquire(i)
  \/ \E i \in 1..Len(qa_images) : QaAnalyzeOne(i)
  \/ QaGatherReturn
  \/ FilterQuality
  \/ CallDeduplicate
  \/ Deduplicate
  \/ DetectBatch
  \/ \E i \in 1..Len(det_images) : Acquire(i)
  \/ \E i \in 1..Len(det_images) : AnalyzeOne(i)
  \/ GatherReturn
  \/ GatherRaise
  \/ FilterErrors
  \/ GenerateResponse

InitChain == ChainInit /\ DedupIdle /\ QualityIdle /\ FetchIdle

SpecChain == InitChain /\ [][NextChain]_vars

\* ----------------------------------------------- semaphores: properties
\* The images inside "async with semaphore" of QualityAnalyzer.analyze_batch.
Scoring == {i \in 1..Len(qa_images) : qa_task[i] = "running"}

\* C25: at most 8 images are being scored at any moment, the free slots
\* being 8 minus the images being scored (a slot is given back when its
\* image finishes or fails), and every image of the batch is eventually
\* scored.
C25_AtMostEightScoring ==
  /\ [](Cardinality(Scoring) <= 8 /\ qa_semaphore = 8 - Cardinality(Scoring))
  /\ <>(\A i \in 1..Len(qa_images) : qa_task[i] = "done")

\* Eight images are being scored, the last one waits, and every executor
\* call of the batch fails.
C25_Witness ==
  /\ Len(qa_images) = MaxBatch
  /\ Cardinality(Scoring) = 8
  /\ qa_task[MaxBatch] = "waiting"
  /\ qa_semaphore = 0
  /\ qa_failing = 1..MaxBatch

\* The URLs inside "async with semaphore" of _fetch_single_image.
Holding == {i \in 1..Len(urls) : ft_task[i] = "running"}

\* C30: at most 10 URLs hold a download slot at any moment; a URL holds its
\* slot from before its first attempt until its success or third failure,
\* the waits between attempts included; every URL eventually obtains a slot.
C30_AtMostTenDownloading ==
  /\ [](/\ Cardinality(Holding) <= 10
        /\ ft_semaphore = 10 - Cardinality(Holding)
        /\ \A i \in 1..Len(urls) :
             /\ attempts[i] > 0 => ft_task[i] # "waiting"
             /\ (attempts[i] \in 1..2 /\ succeeded_at[i] = 0) => i \in Holding)
  /\ <>(\A i \in 1..Len(urls) : ft_task[i] # "waiting")

\* Ten URLs hold a slot, one of them between its second and third attempt,
\* and the last one waits.
C30_Witness ==
  /\ Len(urls) = MaxUrls
  /\ Cardinality(Holding) = 10
  /\ ft_semaphore = 0
  /\ ft_task[MaxUrls] = "waiting"
  /\ \E i \in Holding : attempts[i] = 2

\* ------------------------------------------- process_images: properties
\* The position of a URL in the request's image list.
UrlPos(url) == CHOOSE i \in 1..Len(request.images) : request.images[i] = url

\* The request's URLs whose download succeeded and whose image was scored
\* above the filter's threshold.
KeptUrls ==
  {request.images[i] :
     i \in {j \in 1..Len(request.images) :
              /\ succeeded_at[j] # 0
              /\ \E k \in 1..Len(quality_results) :
                   /\ quality_results[k].image.path = request.images[j]
                   /\ AboveThreshold(quality_results[k].score)}}

\* C27: the list handed to deduplicate holds, in the order of the request's
\* URLs, exactly the URLs that were downloaded and passed the quality filter.
C27_DedupInputInRequestOrder ==
  dd_pc \in {"call", "done"} =>
    /\ {images[k].path : k \in 1..Len(images)} = KeptUrls
    /\ \A k, l \in 1..Len(images) : k < l => UrlPos(images[k].path) < UrlPos(images[l].path)

\* Of three URLs the second is dropped (its download or its score fails) and
\* the list handed to deduplicate has the first and the third, in that order.
C27_Witness ==
  /\ dd_pc = "call"
  /\ Len(request.images) = 3
  /\ Len(images) = 2
  /\ images[1].path = request.images[1]
  /\ images[2].path = request.images[3]
  /\ qa_failing = {}

====
